---- MODULE Spec2Model ----
(***************************************************************************)
(* Model of the context-retrieval server (src/mcp-server/server.py): the   *)
(* two registries SUBSYSTEMS and AGENTS, the documentation directory and   *)
(* the query tools that read them; and of the drift checker                *)
(* (src/case-study/scripts/context-drift-check.py): its runs, the HEAD of  *)
(* the repository and the state file the runs persist.  Text is modelled   *)
(* character by character: a Python str is a TLA+ string, s[i] is          *)
(* SubSeq(s, i, i), and lower(), split(), the regular expression \b\w+\b   *)
(* and the `in` substring test are computed on the characters.             *)
(***************************************************************************)
EXTENDS Integers, Sequences, FiniteSets, TLC

VARIABLES
  SUBSYSTEMS,   \* the subsystem index: ordered entries, one per dict key
  AGENTS,       \* the agent registry: ordered entries, one per dict key
  context_dir,  \* the documentation directory CONTEXT_DIR on disk
  task,         \* the text the caller passes to the next free-text query
  op,           \* the tool that ran last ("none" before the first call)
  arg,          \* the argument of that call
  result,       \* the value that call returned
  matches,      \* the local list `matches` of that call, after its sort
  HEAD,         \* the commit the repository of the drift checker is at
  state_file,   \* the file STATE_FILE of that repository
  run,          \* what the last run of the drift checker was given
  output,       \* what that run printed
  shown,        \* history: the runs that printed a drift warning since HEAD
                \* last moved (counted up to DISMISS_MAX_SHOWS + 1)
  dismissed     \* history: the SHA a --dismiss run recorded since HEAD last
                \* moved, None when there was none

\* the variables of the drift checker
drift_vars == << HEAD, state_file, run, output, shown, dismissed >>

\* the variables of the server
server_vars == << SUBSYSTEMS, AGENTS, context_dir, task, op, arg, result, matches >>

vars == << SUBSYSTEMS, AGENTS, context_dir, task, op, arg, result, matches,
           HEAD, state_file, run, output, shown, dismissed >>

(***************************************************************************)
(* Bounds of the model.                                                    *)
(***************************************************************************)
\* longest task text the caller composes from the fragments below
MaxTaskLen == 8

(***************************************************************************)
(* Python values.                                                          *)
(***************************************************************************)
\* Python's None (no registry key of the model is spelled like this)
None == "<None>"

(***************************************************************************)
(* Python str operations.                                                  *)
(***************************************************************************)
UpperChars == "ABCDEFGHIJKLMNOPQRSTUVWXYZ"
LowerChars == "abcdefghijklmnopqrstuvwxyz"
DigitChars == "0123456789"

CharAt(s, i) == SubSeq(s, i, i)

CharsOf(s) == { CharAt(s, i) : i \in 1..Len(s) }

\* the upper-case letters and their lower-case forms
LowerOf ==
  [ c \in CharsOf(UpperChars) |->
      CharAt(LowerChars, CHOOSE i \in 1..Len(UpperChars) : CharAt(UpperChars, i) = c) ]

\* str.lower() on one character
LowerChar(c) == IF c \in DOMAIN LowerOf THEN LowerOf[c] ELSE c

RECURSIVE LowerEachChar(_)
\* str.lower(): every character lower-cased, the halves one after the other
LowerEachChar(s) ==
  IF Len(s) = 0 THEN ""
  ELSE IF Len(s) = 1 THEN LowerChar(s)
  ELSE LET h == Len(s) \div 2
       IN  LowerEachChar(SubSeq(s, 1, h)) \o LowerEachChar(SubSeq(s, h + 1, Len(s)))

\* `a in b` for two str: a occurs in b as a contiguous substring
StrContains(b, a) ==
  \E i \in 0..(Len(b) - Len(a)) : SubSeq(b, i + 1, i + Len(a)) = a

\* the class \w of the regular expression (ASCII text)
WordChars ==
  CharsOf(LowerChars) \cup CharsOf(UpperChars) \cup CharsOf(DigitChars) \cup {"_"}

IsWordChar(c) == c \in WordChars

\* the characters str.split() splits at
IsSpaceChar(c) == c \in {" ", "\t", "\n", "\r", "\f"}

RECURSIVE FindWordsBySpaces(_, _, _)
\* a tokenizer that cuts the text at blanks only
FindWordsBySpaces(s, cur, acc) ==
  IF s = ""
  THEN IF cur = "" THEN acc ELSE acc \cup {cur}
  ELSE IF Head(s) # " "
       THEN FindWordsBySpaces(Tail(s), cur \o Head(s), acc)
       ELSE FindWordsBySpaces(Tail(s), "", IF cur = "" THEN acc ELSE acc \cup {cur})

RECURSIVE FindWords(_, _, _)
\* set(re.findall(r'\b\w+\b', s)): scan s left to right; cur is the run of
\* word characters read so far, acc the runs already closed
FindWords(s, cur, acc) ==
  IF s = ""
  THEN IF cur = "" THEN acc ELSE acc \cup {cur}
  ELSE IF IsWordChar(Head(s))
       THEN FindWords(Tail(s), cur \o Head(s), acc)
       ELSE FindWords(Tail(s), "", IF cur = "" THEN acc ELSE acc \cup {cur})

RECURSIVE SplitWords(_, _, _)
\* str.split(): the maximal runs of non-whitespace characters, in order
SplitWords(s, cur, acc) ==
  IF s = ""
  THEN IF cur = "" THEN acc ELSE Append(acc, cur)
  ELSE IF IsSpaceChar(Head(s))
       THEN SplitWords(Tail(s), "", IF cur = "" THEN acc ELSE Append(acc, cur))
       ELSE SplitWords(Tail(s), cur \o Head(s), acc)

RECURSIVE StrJoin(_, _)
\* sep.join(xs)
StrJoin(sep, xs) ==
  IF xs = << >> THEN ""
  ELSE IF Len(xs) = 1 THEN xs[1]
  ELSE xs[1] \o sep \o StrJoin(sep, Tail(xs))

(***************************************************************************)
(* Python list operations.                                                 *)
(***************************************************************************)
\* xs[:n]
Take(xs, n) == SubSeq(xs, 1, IF Len(xs) < n THEN Len(xs) ELSE n)

RECURSIVE InsertBeforeTies(_, _)
\* an insertion that puts m before the entries of equal score
InsertBeforeTies(sorted, m) ==
  IF sorted = << >> THEN << m >>
  ELSE IF Head(sorted).score > m.score
       THEN << Head(sorted) >> \o InsertBeforeTies(Tail(sorted), m)
       ELSE << m >> \o sorted

RECURSIVE InsertByScore(_, _)
\* put m into the list sorted by score descending, after every entry whose
\* score is not smaller: entries of equal score keep their arrival order
InsertByScore(sorted, m) ==
  IF sorted = << >> THEN << m >>
  ELSE IF Head(sorted).score >= m.score
       THEN << Head(sorted) >> \o InsertByScore(Tail(sorted), m)
       ELSE << m >> \o sorted

RECURSIVE SortByScoreDesc(_)
\* list.sort(key=lambda x: x["score"], reverse=True): a stable sort, and
\* reverse=True keeps the original order of equal keys
SortByScoreDesc(xs) ==
  IF xs = << >> THEN << >>
  ELSE InsertByScore(SortByScoreDesc(SubSeq(xs, 1, Len(xs) - 1)), xs[Len(xs)])

(***************************************************************************)
(* The subsystem index.  SUBSYSTEMS is a dict literal; a dict iterates in  *)
(* insertion order, so it is modelled as the sequence of its entries, the  *)
(* dict key being the field `key`.  The model loads seven of the shipped   *)
(* entries, each complete, in their shipped order.                         *)
(***************************************************************************)
Subsystem_services ==
  [ key |-> "services",
    name |-> "Service Layer",
    description |->
      "Dependency injection and core services",
    keywords |->
      << "service", "container", "injection", "interface", "collision", "spatial", "content",
         "audio", "profile", "save", "damage", "feedback", "lighting", "shader", "input" >>,
    files |->
      << "Services/ServiceContainer.cs", "Services/Interfaces/", "Services/Implementation/" >> ]

Subsystem_networking ==
  [ key |-> "networking",
    name |-> "Networking",
    description |->
      "Multiplayer networking with host-authoritative P2P model and MessagePack serialization",
    keywords |->
      << "network", "multiplayer", "sync", "snapshot", "interpolation", "message", "transport",
         "lobby", "host", "client", "authority", "damage report", "play mode", "offline",
         "online", "couch coop", "local multiplayer", "messagepack", "serialization", "serialize",
         "deserialize" >>,
    files |->
      << "Network/NetworkService.cs", "Network/INetworkService.cs", "Network/NetworkHelper.cs",
         "Network/Transport/", "Network/Messages/", "Network/Messages/DamageMessages.cs",
         "Network/Messages/PowerUpMessages.cs", "Network/Sync/",
         "ECS/Systems/NetworkSyncSystem.cs", "ECS/Systems/NetworkSpawnSystem.cs",
         "ECS/Systems/NetworkInputSystem.cs", "ECS/Systems/DamageAuthoritySystem.cs",
         ".claude/context/play-modes.md", ".claude/context/play-mode-testing.md",
         ".claude/context/ui-sync-patterns.md", ".claude/context/network-operations.md",
         ".claude/context/network-determinism-architecture.md",
         ".claude/context/network-multiplayer-system.md" >> ]

Subsystem_ai ==
  [ key |-> "ai",
    name |-> "AI System",
    description |->
      "Enemy AI behaviors and enemy archetype designs",
    keywords |->
      << "ai", "behavior", "chase", "wander", "flee", "enemy", "aggro", "target", "archetype",
         "saboteur", "bloater", "ironclad", "hexweaver", "bonecaller", "webspinner", "blinkfiend",
         "phaselurk" >>,
    files |->
      << "ECS/Systems/AISystem.cs", "ECS/Components/AIComponent.cs",
         ".claude/context/enemy-archetypes.md" >> ]

Subsystem_combat ==
  [ key |-> "combat",
    name |-> "Combat",
    description |->
      "Combat, projectiles, abilities, damage, ghost mode, and deterministic RNG",
    keywords |->
      << "combat", "damage", "health", "projectile", "ability", "attack", "weapon", "powerup",
         "death", "kill", "ghost", "spectator", "crit", "critical", "proc", "rng",
         "deterministic", "combatRng", "shotNumber", "subIndex", "timeBucket" >>,
    files |->
      << "ECS/Systems/CombatSystem.cs", "ECS/Systems/ProjectileSystem.cs",
         "ECS/Systems/HealthSystem.cs", "ECS/Systems/AbilitySystem.cs",
         "ECS/Systems/DamageAuthoritySystem.cs", "ECS/Components/Combat/CombatComponent.cs",
         "ECS/Components/Combat/HealthComponent.cs",
         "ECS/Components/Combat/ProjectileComponent.cs",
         "ECS/Components/Player/AbilitiesComponent.cs", "Services/Interfaces/IDamageService.cs",
         "Services/Interfaces/ICombatFeedbackService.cs",
         "Services/Implementation/DamageService.cs",
         "Services/Implementation/CombatFeedbackService.cs", "Network/Messages/DamageMessages.cs",
         "Simulation/CombatRng.cs", "ECS/Data/ProjectileData.cs",
         "ECS/Data/ProjectileSpawnParams.cs", ".claude/context/ghost-mode.md",
         ".claude/context/enemy-combat-system.md", ".claude/context/ability-implementation.md" >> ]

Subsystem_damage ==
  [ key |-> "damage",
    name |-> "Damage Authority",
    description |->
      "Host-authoritative damage validation and health synchronization",
    keywords |->
      << "damage", "health", "authority", "validate", "sync", "prediction", "reconciliation",
         "death", "kill", "batch" >>,
    files |->
      << "ECS/Systems/DamageAuthoritySystem.cs", "ECS/Systems/CombatSystem.cs",
         "Services/Interfaces/IDamageService.cs", "Services/Implementation/DamageService.cs",
         "Services/Interfaces/ICombatFeedbackService.cs",
         "Services/Implementation/CombatFeedbackService.cs", "Network/Messages/DamageMessages.cs",
         "ECS/Components/Combat/HealthComponent.cs",
         ".claude/context/host-authoritative-damage-spec.md" >> ]

Subsystem_spawning ==
  [ key |-> "spawning",
    name |-> "Spawning",
    description |->
      "Enemy and powerup spawning systems",
    keywords |->
      << "spawn", "wave", "enemy", "powerup", "spawner" >>,
    files |->
      << "ECS/Systems/SpawnSystem.cs", "ECS/Systems/NetworkSpawnSystem.cs",
         "ECS/Components/SpawnerComponent.cs" >> ]

Subsystem_debug_console ==
  [ key |-> "debug-console",
    name |-> "Debug Console",
    description |->
      "In-game debug console for testing and development (F12 or backtick to toggle)",
    keywords |->
      << "debug", "console", "command", "spawn", "powerup", "godmode", "kill", "cheat" >>,
    files |->
      << "UI/Debug/DebugConsole.cs", "UI/Debug/IDebugCommand.cs",
         "UI/Debug/DebugCommandRegistry.cs" >> ]

ShippedSubsystems ==
  << Subsystem_services, Subsystem_networking, Subsystem_ai, Subsystem_combat,
     Subsystem_damage, Subsystem_spawning, Subsystem_debug_console >>

(***************************************************************************)
(* The agent registry, modelled like the subsystem index; the dict key is  *)
(* the field `agent`.  The model loads five of the shipped entries, each   *)
(* complete, in their shipped order.                                       *)
(***************************************************************************)
Agent_code_reviewer_game_dev ==
  [ agent |-> "code-reviewer-game-dev",
    name |-> "Game Dev Code Reviewer",
    description |->
      "Expert game engine code reviewer for C# ECS systems, physics logic, or networking code. Reviews for performance, correctness, and MonoGame best practices.",
    triggers |->
      << "review", "refactor", "allocations", "hot path", "performance", "patterns" >>,
    model |-> "opus" ]

Agent_ability_designer ==
  [ agent |-> "ability-designer",
    name |-> "Ability Designer",
    description |->
      "End-to-end ability implementation specialist covering ECS components, systems, VFX placeholders, cooldowns, and balance considerations.",
    triggers |->
      << "ability", "skill", "cooldown", "projectile", "aoe", "buff", "debuff", "cast",
         "power-up" >>,
    model |-> "opus" ]

Agent_ui_and_ux_agent ==
  [ agent |-> "ui-and-ux-agent",
    name |-> "UI/UX Designer",
    description |->
      "UI/UX design expert for MonoGame. Use when building menus, buttons, lists, dialogs, overlays, or debugging layout, scaling, and user interaction patterns.",
    triggers |->
      << "ui", "ux", "menu", "button", "dialog", "overlay", "layout", "scaling", "interaction",
         "widget", "panel", "screen", "interface" >>,
    model |-> "sonnet" ]

Agent_level_designer ==
  [ agent |-> "level-designer",
    name |-> "Level Designer",
    description |->
      "Level design specialist for dungeon config, spawning, tiles, and level balancing.",
    triggers |->
      << "level", "dungeon config", "spawning", "waves", "tiles", "difficulty", "balance",
         "enemy placement", "progression" >>,
    model |-> "sonnet" ]

Agent_systems_designer ==
  [ agent |-> "systems-designer",
    name |-> "Systems Designer",
    description |->
      "MonoGame systems architecture expert. Use when designing core game systems, establishing patterns, or evaluating architectural decisions. Expert in multiplayer ARPG, FPS, and competitive game frameworks.",
    triggers |->
      << "systems", "architecture", "pattern", "pooling", "spatial", "physics", "ai navigation",
         "a*", "pathfinding", "collision", "swept", "netcode", "tick rate", "fixed timestep",
         "hot path", "determinism", "seeding", "rng", "procedural", "wave", "spawning",
         "director", "loot", "drop table", "camera system", "input buffer", "animation state",
         "buff system", "debuff", "targeting", "lock-on", "save system", "persistence",
         "accessibility", "analytics", "replay", "anti-cheat", "loading", "streaming",
         "data-driven", "configuration", "definition", "json data", "hot reload", "state machine",
         "game state", "screen stack", "lifecycle", "event bus", "pub/sub", "messaging",
         "debug console", "cheat", "cvar" >>,
    model |-> "opus" ]

ShippedAgents ==
  << Agent_code_reviewer_game_dev, Agent_ability_designer, Agent_ui_and_ux_agent,
     Agent_level_designer, Agent_systems_designer >>

\* The registry of the documented scoring scenario: only ui-and-ux-agent,
\* with the single-word triggers ui and menu, and systems-designer, which
\* lists ui too; names, descriptions and models are the shipped ones.
ScenarioAgents ==
  << [ Agent_ui_and_ux_agent EXCEPT !.triggers = << "ui", "menu" >> ],
     [ Agent_systems_designer EXCEPT !.triggers = << "systems", "architecture", "ui" >> ] >>

\* A registry in which one agent lists a trigger twice: ui-and-ux-agent
\* names ui at two places of its list and no other agent names it.
RepeatedTriggerAgents ==
  << [ Agent_ui_and_ux_agent EXCEPT !.triggers = << "ui", "menu", "ui" >> ],
     [ Agent_systems_designer EXCEPT !.triggers = << "systems", "architecture" >> ] >>

\* the registries a server process may be started with
AgentRegistries == { ShippedAgents, ScenarioAgents }

SubsystemIndexes == { ShippedSubsystems }


(***************************************************************************)
(* str.lower() on the strings of the registries is computed once.          *)
(***************************************************************************)
\* the names, descriptions and keywords of the subsystems and the
\* descriptions of the agents
RegistryText ==
  UNION { { index[i].name : i \in 1..Len(index) }
            \cup { index[i].description : i \in 1..Len(index) }
            \cup UNION { { index[i].keywords[k] : k \in 1..Len(index[i].keywords) } :
                          i \in 1..Len(index) } : index \in SubsystemIndexes }
    \cup UNION { { registry[a].description : a \in 1..Len(registry) } :
                  registry \in AgentRegistries }

\* their lower-cased forms
LoweredRegistryText == [ s \in RegistryText |-> LowerEachChar(s) ]

\* str.lower()
StrLower(s) == IF s \in RegistryText THEN LoweredRegistryText[s] ELSE LowerEachChar(s)
(***************************************************************************)
(* suggest_agent.  A score is a float that is a sum of terms               *)
(* base * (1.0 + 1.0 / count) and 0.5; in every registry of the model a    *)
(* trigger is listed once or twice, so each score is a multiple of 0.5 and *)
(* the float arithmetic is exact.  The model keeps score * ScoreDen.       *)
(***************************************************************************)
ScoreDen == 2

\* how often the trigger t occurs in one trigger list
CountListings(triggers, t) ==
  Cardinality({ i \in 1..Len(triggers) : triggers[i] = t })

RECURSIVE trigger_agent_count(_, _)
\* trigger_agent_count[t] after the two nested loops over AGENTS: one is
\* added for every entry of every trigger list that equals t
trigger_agent_count(registry, t) ==
  IF registry = << >> THEN 0
  ELSE CountListings(Head(registry).triggers, t)
         + trigger_agent_count(Tail(registry), t)

\* trigger.split()
trigger_words(trigger) == SplitWords(trigger, "", << >>)

\* a matcher that tests every trigger as a substring
TriggerMatchedSubstring(trigger, task_lower, task_words) ==
  StrContains(task_lower, trigger)

\* the flag `matched` for one trigger
TriggerMatched(trigger, task_lower, task_words) ==
  IF Len(trigger_words(trigger)) = 1
  THEN trigger \in task_words
  ELSE StrContains(task_lower, trigger)

\* a trigger score without the uniqueness bonus
TriggerScoreBaseOnly(registry, trigger) ==
  Len(trigger_words(trigger)) * ScoreDen

\* base * (1.0 + uniqueness), times ScoreDen
TriggerScore(registry, trigger) ==
  LET base  == Len(trigger_words(trigger))
      n     == trigger_agent_count(registry, trigger)
      count == IF n = 0 THEN 1 ELSE n   \* trigger_agent_count.get(trigger, 1)
  IN  base * (ScoreDen + ScoreDen \div count)

RECURSIVE SumTriggerScores(_, _)
\* what the matched triggers add to the score, in their order
SumTriggerScores(registry, matched) ==
  IF matched = << >> THEN 0
  ELSE TriggerScore(registry, Head(matched))
         + SumTriggerScores(registry, Tail(matched))

\* the loop over info["triggers"]: the matched triggers are appended in list
\* order and each adds its score
ScanTriggers(registry, triggers, task_lower, task_words) ==
  LET matched == SelectSeq(triggers,
                           LAMBDA t : TriggerMatched(t, task_lower, task_words))
  IN  [ score |-> SumTriggerScores(registry, matched),
        matched_triggers |-> matched ]

\* a bonus that is added for every word found in the description
DescriptionBonusPerWord(info, task_words) ==
  LET description == StrLower(info.description)
  IN  (ScoreDen \div 2)
        * Cardinality({ word \in task_words :
                          Len(word) > 3 /\ StrContains(description, word) })

\* a description signal worth a whole point
DescriptionBonusWholePoint(info, task_words) ==
  LET description == StrLower(info.description)
  IN  IF \E word \in task_words : Len(word) > 3 /\ StrContains(description, word)
      THEN ScoreDen
      ELSE 0

\* the weak signal of the description: 0.5, times ScoreDen, or nothing
DescriptionBonus(info, task_words) ==
  LET description == StrLower(info.description)
  IN  IF \E word \in task_words : Len(word) > 3 /\ StrContains(description, word)
      THEN ScoreDen \div 2
      ELSE 0

\* score and matched_triggers of one agent at the `if score > 0` test
AgentScore(registry, info, task_lower, task_words) ==
  LET scanned == ScanTriggers(registry, info.triggers, task_lower, task_words)
  IN  [ score |-> scanned.score + DescriptionBonus(info, task_words),
        matched_triggers |-> scanned.matched_triggers ]

RECURSIVE CollectAllAgents(_, _, _, _)
\* a loop that keeps the agents with score 0 too
CollectAllAgents(registry, rest, task_lower, task_words) ==
  IF rest = << >> THEN << >>
  ELSE LET info == Head(rest)
           s == AgentScore(registry, info, task_lower, task_words)
       IN  << [ agent |-> info.agent,
                name |-> info.name,
                description |-> info.description,
                model |-> info.model,
                score |-> s.score,
                matched_triggers |-> s.matched_triggers ] >>
             \o CollectAllAgents(registry, Tail(rest), task_lower, task_words)

RECURSIVE CollectAgentMatches(_, _, _, _)
\* the loop over AGENTS.items(): the agents with score > 0, in registry order
CollectAgentMatches(registry, rest, task_lower, task_words) ==
  IF rest = << >> THEN << >>
  ELSE LET info == Head(rest)
           s == AgentScore(registry, info, task_lower, task_words)
           tail == CollectAgentMatches(registry, Tail(rest), task_lower, task_words)
       IN  IF s.score > 0
           THEN << [ agent |-> info.agent,
                     name |-> info.name,
                     description |-> info.description,
                     model |-> info.model,
                     score |-> s.score,
                     matched_triggers |-> s.matched_triggers ] >> \o tail
           ELSE tail

\* the local list `matches` of suggest_agent after matches.sort(...)
suggest_agent_matches(registry, task_description) ==
  LET task_lower == StrLower(task_description)
      task_words == FindWords(task_lower, "", {})
  IN  SortByScoreDesc(CollectAgentMatches(registry, registry, task_lower, task_words))

\* a confidence level whose thresholds are exclusive
ConfidenceExclusive(top_score) ==
  IF top_score > 4 * ScoreDen THEN "high"
  ELSE IF top_score > 2 * ScoreDen THEN "medium"
  ELSE IF top_score > 1 * ScoreDen THEN "low"
  ELSE "none"

\* the confidence level of a top score (a score times ScoreDen)
Confidence(top_score) ==
  IF top_score >= 4 * ScoreDen THEN "high"
  ELSE IF top_score >= 2 * ScoreDen THEN "medium"
  ELSE IF top_score >= 1 * ScoreDen THEN "low"
  ELSE "none"

\* whether the disambiguation hint is added
TopTied(ms) == Len(ms) >= 2 /\ ms[1].score = ms[2].score

\* a list of tied agents taken from the three returned agents only
TiedAmongReturned(ms) ==
  LET top == SelectSeq(Take(ms, 3), LAMBDA m : m.score = ms[1].score)
  IN  [ i \in 1..Len(top) |-> top[i].agent ]

\* the list `tied`
TiedAgents(ms) ==
  LET top == SelectSeq(ms, LAMBDA m : m.score = ms[1].score)
  IN  [ i \in 1..Len(top) |-> top[i].agent ]

\* a result that returns the five highest-ranked agents
SuggestAgentResultTopFive(task_description, ms) ==
  LET top_score  == IF ms # << >> THEN ms[1].score ELSE 0
      confidence == Confidence(top_score)
  IN  [ task |-> task_description,
        recommendation |-> IF ms # << >> THEN ms[1].agent ELSE None,
        confidence |-> confidence,
        suggested_agents |-> Take(ms, 5),
        should_invoke |-> confidence \in {"high", "medium"} ]

\* the value suggest_agent returns, given its sorted list `matches`
SuggestAgentResult(task_description, ms) ==
  LET top_score  == IF ms # << >> THEN ms[1].score ELSE 0
      confidence == Confidence(top_score)
      base == [ task |-> task_description,
                recommendation |-> IF ms # << >> THEN ms[1].agent ELSE None,
                confidence |-> confidence,
                suggested_agents |-> Take(ms, 3),
                should_invoke |-> confidence \in {"high", "medium"} ]
  IN  IF TopTied(ms)
      THEN base @@ [ disambiguation |->
                       "Tied between " \o StrJoin(", ", TiedAgents(ms))
                         \o ". Check which files you're modifying to decide." ]
      ELSE base

suggest_agent(registry, task_description) ==
  SuggestAgentResult(task_description, suggest_agent_matches(registry, task_description))

(***************************************************************************)
(* list_agents and list_subsystems.  The returned dict is modelled like    *)
(* the registries: the sequence of its entries in insertion order.         *)
(***************************************************************************)
list_agents(registry) ==
  [ i \in 1..Len(registry) |->
      [ key |-> registry[i].agent,
        value |-> [ name |-> registry[i].name,
                    description |-> registry[i].description,
                    model |-> registry[i].model,
                    triggers |-> registry[i].triggers ] ] ]

\* a listing whose entries carry the file lists as well
ListSubsystemsWithFiles(index) ==
  [ i \in 1..Len(index) |->
      [ key |-> index[i].key,
        value |-> [ name |-> index[i].name,
                    description |-> index[i].description,
                    keywords |-> index[i].keywords,
                    files |-> index[i].files ] ] ]

list_subsystems(index) ==
  [ i \in 1..Len(index) |->
      [ key |-> index[i].key,
        value |-> [ name |-> index[i].name,
                    description |-> index[i].description,
                    keywords |-> index[i].keywords ] ] ]

(***************************************************************************)
(* get_files_for_subsystem.                                                *)
(***************************************************************************)
\* a key list in reverse load order
SubsystemKeysReversed(index) ==
  [ i \in 1..Len(index) |-> index[Len(index) + 1 - i].key ]

\* list(SUBSYSTEMS.keys())
SubsystemKeys(index) == [ i \in 1..Len(index) |-> index[i].key ]

\* a membership test against the display names
HasSubsystemNamed(index, subsystem) ==
  \E i \in 1..Len(index) : index[i].name = subsystem

\* subsystem in SUBSYSTEMS
HasSubsystem(index, subsystem) == \E i \in 1..Len(index) : index[i].key = subsystem

\* SUBSYSTEMS[subsystem]
SubsystemInfo(index, subsystem) ==
  index[CHOOSE i \in 1..Len(index) : index[i].key = subsystem]

base_path == "GameProject/src/GameProject.Engine"

\* [f"{base_path}/{f}" for f in files]
FullPaths(files) == [ i \in 1..Len(files) |-> base_path \o "/" \o files[i] ]

get_files_for_subsystem(index, subsystem) ==
  IF ~HasSubsystem(index, subsystem)
  THEN [ error |-> "Unknown subsystem: " \o subsystem,
         available |-> SubsystemKeys(index) ]
  ELSE LET info == SubsystemInfo(index, subsystem)
       IN  [ subsystem |-> subsystem,
             name |-> info.name,
             description |-> info.description,
             files |-> FullPaths(info.files) ]

(***************************************************************************)
(* find_relevant_context.                                                  *)
(***************************************************************************)
\* a keyword loop that lower-cases the keywords too
MatchedKeywordsLowered(info, task_lower) ==
  SelectSeq(info.keywords, LAMBDA keyword : StrContains(task_lower, StrLower(keyword)))

\* a keyword loop that matches a keyword only against the whole text
MatchedKeywordsWholeText(info, task_lower) ==
  SelectSeq(info.keywords, LAMBDA keyword : task_lower = keyword)

\* the loop over info["keywords"]: the keywords found in the text, in order
MatchedKeywords(info, task_lower) ==
  SelectSeq(info.keywords, LAMBDA keyword : StrContains(task_lower, keyword))

\* a scorer that adds 1 for the display name
NameBonusOne(info, task_lower) ==
  IF StrContains(task_lower, StrLower(info.name)) THEN 1 ELSE 0

\* what the display name adds to the score
NameBonus(info, task_lower) ==
  IF StrContains(task_lower, StrLower(info.name)) THEN 2 ELSE 0

\* score of one subsystem at the `if score > 0` test
SubsystemScore(info, task_lower) ==
  Len(MatchedKeywords(info, task_lower)) + NameBonus(info, task_lower)

RECURSIVE CollectSubsystemMatches(_, _)
\* the loop over SUBSYSTEMS.items(): the subsystems with score > 0, in order
CollectSubsystemMatches(rest, task_lower) ==
  IF rest = << >> THEN << >>
  ELSE LET info == Head(rest)
           score == SubsystemScore(info, task_lower)
           tail == CollectSubsystemMatches(Tail(rest), task_lower)
       IN  IF score > 0
           THEN << [ subsystem |-> info.key,
                     name |-> info.name,
                     score |-> score,
                     matched_keywords |-> MatchedKeywords(info, task_lower),
                     files |-> info.files ] >> \o tail
           ELSE tail

\* the local list `matches` of find_relevant_context after matches.sort(...)
find_relevant_context_matches(index, task_description) ==
  SortByScoreDesc(CollectSubsystemMatches(index, StrLower(task_description)))

RECURSIVE FirstOccurrences(_)
\* appending each element that is not in the list yet keeps the first
\* occurrence of every element, in order; computed on the two halves
FirstOccurrences(xs) ==
  IF Len(xs) <= 1 THEN xs
  ELSE LET h == Len(xs) \div 2
           left == FirstOccurrences(SubSeq(xs, 1, h))
           right == FirstOccurrences(SubSeq(xs, h + 1, Len(xs)))
       IN  left \o SelectSeq(right, LAMBDA x : \A i \in 1..Len(left) : left[i] # x)

RECURSIVE FilesOf(_)
\* the full paths of the files of the given matches, match after match
FilesOf(ms) ==
  IF ms = << >> THEN << >> ELSE FullPaths(Head(ms).files) \o FilesOf(Tail(ms))

\* a file list that keeps every path the walk appends
SuggestedFilesAppendAll(ms) == FilesOf(Take(ms, 3))

\* the list suggested_files after the loop over matches[:3]
SuggestedFiles(ms) == FirstOccurrences(FilesOf(Take(ms, 3)))

\* a result that returns the whole ranking
FindRelevantContextResultUncapped(task_description, ms) ==
  [ task |-> task_description,
    relevant_subsystems |-> ms,
    suggested_files |-> Take(SuggestedFiles(ms), 10),
    architecture_resource |-> "context7://architecture" ]

\* the value find_relevant_context returns, given its sorted list `matches`
FindRelevantContextResult(task_description, ms) ==
  [ task |-> task_description,
    relevant_subsystems |-> Take(ms, 5),
    suggested_files |-> Take(SuggestedFiles(ms), 10),
    architecture_resource |-> "context7://architecture" ]

find_relevant_context(index, task_description) ==
  FindRelevantContextResult(task_description,
                            find_relevant_context_matches(index, task_description))


(***************************************************************************)
(* The documentation directory CONTEXT_DIR: whether it exists and, in the  *)
(* order glob() yields them, its entries; an entry has its file name, its  *)
(* text, and whether read_text() succeeds on it.                           *)
(***************************************************************************)
\* str(CONTEXT_DIR.relative_to(PROJECT_ROOT))
context_directory == ".claude/context"

\* name.endswith(suffix)
EndsWith(name, suffix) ==
  /\ Len(name) >= Len(suffix)
  /\ SubSeq(name, Len(name) - Len(suffix) + 1, Len(name)) = suffix

\* CONTEXT_DIR.glob("*.md"): the entries whose name ends in .md, in order
GlobMd(dir) == SelectSeq(dir, LAMBDA f : EndsWith(f.name, ".md"))

\* f.stem of a file the glob yields: the name without its last suffix
Stem(f) == SubSeq(f.name, 1, Len(f.name) - Len(".md"))

\* str(f.relative_to(PROJECT_ROOT))
RelativePath(f) == context_directory \o "/" \o f.name

\* the positions of the line breaks of a text
LineBreaks(content) == { i \in 1..Len(content) : CharAt(content, i) = "\n" }

\* content.split("\n"): the texts between consecutive line breaks, where
\* at[k] is the position of the k-th break (0 before the first line, one
\* past the end after the last)
SplitLines(content) ==
  LET breaks == LineBreaks(content)
      n      == Cardinality(breaks)
      at     == [ k \in 0..(n + 1) |->
                    IF k = 0 THEN 0
                    ELSE IF k = n + 1 THEN Len(content) + 1
                    ELSE CHOOSE i \in breaks :
                           Cardinality({ j \in breaks : j <= i }) = k ]
  IN  [ k \in 1..(n + 1) |-> SubSeq(content, at[k - 1] + 1, at[k] - 1) ]

\* a context of one line before and one line after
ContextLinesNarrow(lines, n) ==
  SubSeq(lines, IF n - 1 < 1 THEN 1 ELSE n - 1,
                IF n + 1 > Len(lines) THEN Len(lines) ELSE n + 1)

\* lines[start:end] around the line at 1-based position n: two lines before
\* and two after, clipped at the ends of the document
ContextLines(lines, n) ==
  SubSeq(lines, IF n - 2 < 1 THEN 1 ELSE n - 2,
                IF n + 2 > Len(lines) THEN Len(lines) ELSE n + 2)

\* a line test that compares the line as written with the lower-cased query
LineMatchesCaseSensitive(line, query_lower) == StrContains(line, query_lower)

\* query_lower in line.lower()
LineMatches(line, query_lower) == StrContains(StrLower(line), query_lower)

\* the list `matches` of one document after the loop over its lines
DocumentMatches(lines, query_lower) ==
  LET hit == SelectSeq([ n \in 1..Len(lines) |-> n ],
                       LAMBDA n : LineMatches(lines[n], query_lower))
  IN  [ k \in 1..Len(hit) |->
          [ line_number |-> hit[k],
            context |-> StrJoin("\n", ContextLines(lines, hit[k])) ] ]

\* an entry that reports as many matches as it returns
DocumentEntryCountingReturned(f, ms) ==
  [ document |-> Stem(f),
    path |-> RelativePath(f),
    matches |-> Take(ms, 10),
    total_matches |-> Len(Take(ms, 10)) ]

\* the entry results.append(...) adds for a document with matches
DocumentEntry(f, ms) ==
  [ document |-> Stem(f),
    path |-> RelativePath(f),
    matches |-> Take(ms, 10),
    total_matches |-> Len(ms) ]

\* the body of the loop over the documents for one file: what it appends to
\* `results`; a read that raises is caught and the loop continues
SearchDocument(f, query_lower) ==
  IF ~f.readable THEN << >>
  ELSE LET ms == DocumentMatches(SplitLines(f.content), query_lower)
       IN  IF ms # << >> THEN << DocumentEntry(f, ms) >> ELSE << >>

RECURSIVE SearchDocumentsUntilFailure(_, _)
\* a loop over the documents that a failing read ends
SearchDocumentsUntilFailure(files, query_lower) ==
  IF files = << >> \/ ~Head(files).readable THEN << >>
  ELSE SearchDocument(Head(files), query_lower)
         \o SearchDocumentsUntilFailure(Tail(files), query_lower)

RECURSIVE SearchDocuments(_, _)
\* the list `results` after the loop over CONTEXT_DIR.glob("*.md")
SearchDocuments(files, query_lower) ==
  IF files = << >> THEN << >>
  ELSE SearchDocument(Head(files), query_lower)
         \o SearchDocuments(Tail(files), query_lower)

\* the keywords of a subsystem that contain the query, in order
KeywordsContaining(info, query_lower) ==
  SelectSeq(info.keywords, LAMBDA keyword : StrContains(StrLower(keyword), query_lower))

\* a scan that reports the last keyword that contains the query
SubsystemMatchLastKeyword(info, query_lower) ==
  IF \/ StrContains(StrLower(info.name), query_lower)
     \/ StrContains(StrLower(info.description), query_lower)
  THEN << [ subsystem |-> info.key,
            name |-> info.name,
            description |-> info.description ] >>
  ELSE LET found == KeywordsContaining(info, query_lower)
       IN  IF found # << >>
           THEN << [ subsystem |-> info.key,
                     name |-> info.name,
                     matched_keyword |-> found[Len(found)] ] >>
           ELSE << >>

\* what the loop over SUBSYSTEMS.items() appends for one subsystem
SubsystemMatch(info, query_lower) ==
  IF \/ StrContains(StrLower(info.name), query_lower)
     \/ StrContains(StrLower(info.description), query_lower)
  THEN << [ subsystem |-> info.key,
            name |-> info.name,
            description |-> info.description ] >>
  ELSE LET found == KeywordsContaining(info, query_lower)
       IN  IF found # << >>
           THEN << [ subsystem |-> info.key,
                     name |-> info.name,
                     matched_keyword |-> found[1] ] >>
           ELSE << >>

RECURSIVE SubsystemMatches(_, _)
\* the list `subsystem_matches`
SubsystemMatches(index, query_lower) ==
  IF index = << >> THEN << >>
  ELSE SubsystemMatch(Head(index), query_lower)
         \o SubsystemMatches(Tail(index), query_lower)

\* a guard that answers with an empty search when the directory is missing
MissingDirectoryAsEmpty == [ query |-> None,
                             document_matches |-> << >>,
                             subsystem_matches |-> << >> ]

\* the value both document tools return when CONTEXT_DIR does not exist
MissingDirectoryError == [ error |-> "Context directory not found" ]

search_context_documents(index, dir, query) ==
  IF ~dir.exists THEN MissingDirectoryError
  ELSE LET query_lower == StrLower(query)
       IN  [ query |-> query,
             document_matches |-> SearchDocuments(GlobMd(dir.entries), query_lower),
             subsystem_matches |-> SubsystemMatches(index, query_lower) ]

(***************************************************************************)
(* get_context_files.                                                      *)
(***************************************************************************)
\* the stems get_context_files knows, with description and resource_uri
KnownDocuments ==
  << [ stem |-> "architecture",
       description |-> "Core architecture overview (ECS, services, networking, devtools, tiled templates)",
       resource_uri |-> "context7://architecture" ],
     [ stem |-> "dungeon-generation",
       description |-> "Procedural dungeon generation system (BSP, graph, rooms, corridors)",
       resource_uri |-> "context7://architecture/dungeon-generation" ],
     [ stem |-> "tiledlib-api",
       description |-> "TiledLib.Net 4.0 API reference for loading .tmx/.tsx files",
       resource_uri |-> "context7://architecture/tiled-templates" ],
     [ stem |-> "coordinate-systems",
       description |-> "Isometric rendering, coordinate conversion, depth sorting, compensation",
       resource_uri |-> "context7://architecture/isometric-input" ],
     [ stem |-> "input-system",
       description |-> "Input system with keyboard, mouse, and gamepad support",
       resource_uri |-> "context7://architecture/input-system" ],
     [ stem |-> "aiming-system",
       description |-> "Aiming system with isometric coordinate transforms, camera timing, and network determinism",
       resource_uri |-> "context7://architecture/aiming-system" ],
     [ stem |-> "boss-fight-framework",
       description |-> "Multi-phase boss fights with attack pools, minions, enrage, vulnerability, shield mechanics, and network sync",
       resource_uri |-> "context7://architecture/boss-fight-framework" ],
     [ stem |-> "network-operations",
       description |-> "Network testing, debugging, and known issues",
       resource_uri |-> None ],
     [ stem |-> "art-pipeline",
       description |-> "3D-to-2D art pipeline (Meshy, Blender, atlas packing, content loading)",
       resource_uri |-> None ],
     [ stem |-> "item-system",
       description |-> "Equipment system: Orbs, Mods, Cores, fusion, augment tokens, PowerLevel",
       resource_uri |-> None ] >>

\* the dict get_context_files appends for one file
ContextFileEntry(f) ==
  LET known == SelectSeq(KnownDocuments, LAMBDA d : d.stem = Stem(f))
  IN  [ name |-> Stem(f),
        path |-> RelativePath(f),
        description |-> IF known # << >> THEN known[1].description ELSE "",
        resource_uri |-> IF known # << >> THEN known[1].resource_uri ELSE None ]

\* the characters of the file names of the model, in code point order
NameChars == "-.0123456789_abcdefghijklmnopqrstuvwxyz"

\* the place of a character in that order
NameCharRank(c) == CHOOSE i \in 1..Len(NameChars) : CharAt(NameChars, i) = c

\* a < b for two str
StrLess(a, b) ==
  \E i \in 1..(Len(b)) :
    /\ i <= Len(a) + 1
    /\ SubSeq(a, 1, i - 1) = SubSeq(b, 1, i - 1)
    /\ \/ i = Len(a) + 1
       \/ NameCharRank(CharAt(a, i)) < NameCharRank(CharAt(b, i))

RECURSIVE InsertByName(_, _)
\* put e into the list sorted by name, after every entry whose name is not
\* greater
InsertByName(sorted, e) ==
  IF sorted = << >> THEN << e >>
  ELSE IF ~StrLess(e.name, Head(sorted).name)
       THEN << Head(sorted) >> \o InsertByName(Tail(sorted), e)
       ELSE << e >> \o sorted

RECURSIVE SortByName(_)
\* sorted(files, key=lambda x: x["name"])
SortByName(xs) ==
  IF xs = << >> THEN << >>
  ELSE InsertByName(SortByName(SubSeq(xs, 1, Len(xs) - 1)), xs[Len(xs)])

get_context_files(dir) ==
  IF ~dir.exists THEN MissingDirectoryError
  ELSE LET found == GlobMd(dir.entries)
       IN  [ context_directory |-> context_directory,
             files |-> SortByName([ i \in 1..Len(found) |-> ContextFileEntry(found[i]) ]) ]

(***************************************************************************)
(* Documentation directories of the model.                                 *)
(***************************************************************************)
\* a directory with two documents and a file the glob passes over; eleven
\* of the thirteen lines of architecture.md hold the word sync
ContextFiles ==
  << [ name |-> "network-operations.md",
       content |-> "ui menu\nhot path\nSync lock-on",
       readable |-> TRUE ],
     [ name |-> "architecture.md",
       content |-> "# Sync\nsync a\nui sync\nmenu\nsync b\nSYNC c\nsync d\nkill sync\nsync e\nsync f\n\nsync g\nsync h",
       readable |-> TRUE ],
     [ name |-> "notes.txt",
       content |-> "sync ui",
       readable |-> TRUE ] >>

\* the directory as it is when every read succeeds
ContextDirPresent == [ exists |-> TRUE, entries |-> ContextFiles ]

\* no directory
ContextDirAbsent == [ exists |-> FALSE, entries |-> << >> ]

(***************************************************************************)
(* The drift checker (src/case-study/scripts/context-drift-check.py).  One *)
(* run of main() reads HEAD and the state file, decides whether the        *)
(* code/doc drift warning is printed, and writes the state file back.      *)
(***************************************************************************)
MaxCommits == 2

DISMISS_MAX_SHOWS == 2

DEBUG_SCORE_THRESHOLD == 50

HexDigits == "0123456789abcdef"

\* the SHA of the i-th commit: 40 hexadecimal digits, as `git rev-parse HEAD`
\* prints them
Sha(i) ==
  SubSeq(HexDigits, i + 1, i + 1) \o "e4c81d7" \o "9a0b35f26d1c48e7b93f05a2c6d714e8"

Commits == { Sha(i) : i \in 1..MaxCommits }

(***************************************************************************)
(* Python dicts and JSON.  A dict with string keys is a function on its    *)
(* keys; {} is the function on no key.                                     *)
(***************************************************************************)
EmptyDict == [ k \in {} |-> None ]

\* the dict {"head_sha": head, "times_shown": times_shown}
StateDict(head, times_shown) ==
  [ head_sha |-> head, times_shown |-> times_shown ]

\* d.get(k, default)
DictGet(d, k, default) == IF k \in DOMAIN d THEN d[k] ELSE default

\* truth value of a dict: it has a key
DictTruthy(d) == DOMAIN d # {}

Digits == "0123456789"

\* str(n) of a small non-negative integer
RECURSIVE IntToStr(_)
IntToStr(n) ==
  IF n < 10 THEN SubSeq(Digits, n + 1, n + 1)
  ELSE IntToStr(n \div 10) \o SubSeq(Digits, (n % 10) + 1, (n % 10) + 1)

IsDigits(s) ==
  /\ s # ""
  /\ \A i \in 1..Len(s) : StrContains(Digits, CharAt(s, i))

DigitValue(c) == CHOOSE v \in 0..9 : SubSeq(Digits, v + 1, v + 1) = c

RECURSIVE StrToInt(_)
\* int of a decimal numeral
StrToInt(s) ==
  IF Len(s) = 1 THEN DigitValue(s)
  ELSE 10 * StrToInt(SubSeq(s, 1, Len(s) - 1)) + DigitValue(CharAt(s, Len(s)))

JsonHeadKey == "{\"head_sha\": \""

JsonTimesKey == "\", \"times_shown\": "

\* json.dumps(state) of the two dicts main() saves: {} and
\* {"head_sha": <str>, "times_shown": <int>}, keys in insertion order
json_dumps(state) ==
  IF ~DictTruthy(state) THEN "{}"
  ELSE JsonHeadKey \o state["head_sha"] \o JsonTimesKey
         \o IntToStr(state["times_shown"]) \o "}"

StartsWith(s, prefix) ==
  Len(s) >= Len(prefix) /\ SubSeq(s, 1, Len(prefix)) = prefix

\* the position of the first character c of s at or after position from,
\* 0 when there is none
FirstAt(s, c, from) ==
  LET at == { i \in from..Len(s) : CharAt(s, i) = c }
  IN IF at = {} THEN 0 ELSE CHOOSE i \in at : \A j \in at : i <= j

\* json.loads(text) of the texts json_dumps writes; every other text (a file
\* of no bytes among them) raises JSONDecodeError: ok is FALSE
json_loads(text) ==
  IF text = "{}" THEN [ ok |-> TRUE, value |-> EmptyDict ]
  ELSE IF ~StartsWith(text, JsonHeadKey)
    THEN [ ok |-> FALSE, value |-> EmptyDict ]
  ELSE
    LET from   == Len(JsonHeadKey) + 1
        quote  == FirstAt(text, "\"", from)
        rest   == IF quote = 0 THEN "" ELSE SubSeq(text, quote, Len(text))
        number == SubSeq(rest, Len(JsonTimesKey) + 1, Len(rest) - 1)
    IN IF /\ quote # 0
          /\ StartsWith(rest, JsonTimesKey)
          /\ CharAt(rest, Len(rest)) = "}"
          /\ IsDigits(number)
       THEN [ ok |-> TRUE,
              value |-> StateDict(SubSeq(text, from, quote - 1), StrToInt(number)) ]
       ELSE [ ok |-> FALSE, value |-> EmptyDict ]

(***************************************************************************)
(* The state file: it exists or not, holds a text, and can be written or   *)
(* not.                                                                    *)
(***************************************************************************)
StateFile(exists, text, writable) ==
  [ exists |-> exists, text |-> text, writable |-> writable ]

StateFileAbsent == StateFile(FALSE, "", TRUE)

\* load_state: the parsed text of the file; {} when the file is absent or
\* its text does not parse
load_state(file) ==
  IF file.exists
  THEN LET parsed == json_loads(file.text)
       IN IF parsed.ok THEN parsed.value ELSE EmptyDict
  ELSE EmptyDict

\* save_state: write_text creates or replaces the file; an OSError is
\* swallowed and leaves the file as it was
save_state(file, state) ==
  IF file.writable THEN StateFile(TRUE, json_dumps(state), TRUE) ELSE file

\* get_head_sha: the SHA `git rev-parse HEAD` printed, None when the command
\* failed or timed out
get_head_sha(rev_parse) ==
  IF rev_parse.returncode = 0 THEN rev_parse.stdout ELSE None

(***************************************************************************)
(* The drift items detect_code_doc_drift returns.                          *)
(***************************************************************************)
DriftItem(subsystem, priority, code_files, expected_docs) ==
  [ subsystem |-> subsystem, priority |-> priority,
    code_files |-> code_files, expected_docs |-> expected_docs ]

NetworkingDrift ==
  DriftItem("networking", "HIGH",
            << "ECS/Systems/NetworkSyncSystem.cs", "Network/NetworkService.cs" >>,
            << "network-multiplayer-system.md", "play-modes.md" >>)

CombatDrift ==
  DriftItem("combat", "HIGH",
            << "ECS/Systems/CombatSystem.cs" >>,
            << "play-modes.md" >>)

SpawningDrift ==
  DriftItem("spawning", "MEDIUM",
            << "ECS/Systems/EnemySpawnSystem.cs" >>,
            << "wave-system.md" >>)

\* what drift detection may return on a run: nothing, or flagged subsystems
\* of priority HIGH or MEDIUM (LOW ones are never flagged)
DriftOutcomes ==
  { << >>,
    << NetworkingDrift >>,
    << SpawningDrift >>,
    << NetworkingDrift, CombatDrift, SpawningDrift >> }

SeqRange(xs) == { xs[i] : i \in 1..Len(xs) }

RECURSIVE DeduplicateFrom(_, _, _)
\* the loop over drift from its i-th item on, seen_docs being seen
DeduplicateFrom(drift, i, seen_docs) ==
  IF i > Len(drift) THEN << >>
  ELSE
    LET item     == drift[i]
        new_docs == SelectSeq(item.expected_docs, LAMBDA d : d \notin seen_docs)
    IN IF new_docs # << >>
       THEN << [ item EXCEPT !.expected_docs = new_docs ] >>
              \o DeduplicateFrom(drift, i + 1, seen_docs \cup SeqRange(new_docs))
       ELSE DeduplicateFrom(drift, i + 1, seen_docs)

\* a doc suggested by several subsystems stays with the first one; an item
\* left with no doc is dropped
Deduplicate(drift) == DeduplicateFrom(drift, 1, {})

(***************************************************************************)
(* The auto-dismiss step of main().  Its outcome: the drift that is left   *)
(* to print, the count to display, and the state file after it.            *)
(***************************************************************************)
Outcome(drift, times_shown, file) ==
  [ drift |-> drift, times_shown |-> times_shown, state_file |-> file ]

\* a counter that goes on counting shows after DISMISS_MAX_SHOWS
SameHeadUncapped(drift, head, state, file) ==
  LET times_shown == DictGet(state, "times_shown", 0)
  IN Outcome(drift, times_shown + 1,
             save_state(file, StateDict(head, times_shown + 1)))

\* an auto-dismiss that clears the state when it suppresses the warning
SameHeadClearing(drift, head, state, file) ==
  LET times_shown == DictGet(state, "times_shown", 0)
  IN IF times_shown >= DISMISS_MAX_SHOWS
     THEN Outcome(<< >>, times_shown, save_state(file, EmptyDict))
     ELSE Outcome(drift, times_shown + 1,
                  save_state(file, StateDict(head, times_shown + 1)))

\* same HEAD as the state records: suppress the warning once it was shown
\* DISMISS_MAX_SHOWS times, otherwise count one more show
SameHead(drift, head, state, file) ==
  LET times_shown == DictGet(state, "times_shown", 0)
  IN IF times_shown >= DISMISS_MAX_SHOWS
     THEN Outcome(<< >>, times_shown, file)
     ELSE Outcome(drift, times_shown + 1,
                  save_state(file, StateDict(head, times_shown + 1)))

\* a reset that goes on from the counter the state holds
NewHeadContinuing(drift, head, state, file) ==
  IF DictGet(state, "times_shown", 0) >= DISMISS_MAX_SHOWS
  THEN Outcome(<< >>, DictGet(state, "times_shown", 0),
               save_state(file, StateDict(head, DictGet(state, "times_shown", 0))))
  ELSE Outcome(drift, DictGet(state, "times_shown", 0) + 1,
               save_state(file, StateDict(head, DictGet(state, "times_shown", 0) + 1)))

\* another HEAD than the state records, or no state: the counter starts
\* again and this run is the first show
NewHead(drift, head, state, file) ==
  Outcome(drift, 1, save_state(file, StateDict(head, 1)))

\* no drift: a state that holds something is replaced by {}
NoDrift(state, file) ==
  Outcome(<< >>, 0, IF DictTruthy(state) THEN save_state(file, EmptyDict) ELSE file)

AutoDismiss(drift, head, file) ==
  LET state == load_state(file)
  IN IF drift # << >> /\ head # None
     THEN IF DictGet(state, "head_sha", None) = head
          THEN SameHead(drift, head, state, file)
          ELSE NewHead(drift, head, state, file)
     ELSE IF drift = << >>
          THEN NoDrift(state, file)
          ELSE Outcome(drift, 0, file)

(***************************************************************************)
(* format_output.  The long dash of the source is written "-": a TLA+      *)
(* string holds ASCII only.                                                *)
(***************************************************************************)
\* os.path.basename(f)
RECURSIVE basename(_)
basename(f) ==
  LET slash == FirstAt(f, "/", 1)
  IN IF slash = 0 THEN f ELSE basename(SubSeq(f, slash + 1, Len(f)))

dismiss_note(times_shown) ==
  LET remaining == IF DISMISS_MAX_SHOWS - times_shown > 0
                   THEN DISMISS_MAX_SHOWS - times_shown ELSE 0
  IN "(showing " \o IntToStr(times_shown) \o "/" \o IntToStr(DISMISS_MAX_SHOWS)
       \o " - auto-dismisses after " \o IntToStr(remaining) \o " more)"

\* one line of a tier: the subsystem, two of its code files, its docs
ItemLine(item, verb) ==
  "  - " \o item.subsystem \o " ("
    \o StrJoin(", ", [ i \in 1..Len(Take(item.code_files, 2)) |->
                         basename(item.code_files[i]) ])
    \o ") -> " \o verb \o ": " \o StrJoin(", ", Take(item.expected_docs, 3))

\* the part of one priority tier: its header and up to three items
TierPart(header, verb, items, times_shown) ==
  StrJoin("\n",
          << "CONTEXT DRIFT [" \o header \o "] " \o dismiss_note(times_shown) \o ":" >>
            \o [ i \in 1..Len(Take(items, 3)) |-> ItemLine(items[i], verb) ])

NoSession ==
  [ found |-> FALSE, score |-> 0, edit_build_cycles |-> 0, debug_prompts |-> 0 ]

DebuggingSession ==
  [ found |-> TRUE, score |-> 60, edit_build_cycles |-> 3, debug_prompts |-> 6 ]

QuietSession ==
  [ found |-> TRUE, score |-> 10, edit_build_cycles |-> 1, debug_prompts |-> 0 ]

\* what analyze_last_sessions may return: None (found is FALSE) or the
\* figures of the session that scored most
SessionInfos == { NoSession, DebuggingSession, QuietSession }

SessionPart(s) ==
  "DEBUGGING SESSION: Last session was debugging-heavy ("
    \o IntToStr(s.edit_build_cycles) \o " edit-build cycles, "
    \o IntToStr(s.debug_prompts) \o " debug prompts, score "
    \o IntToStr(s.score) \o "/100). If bugs revealed gaps in documentation, "
    \o "consider updating relevant context docs or agent descriptions with "
    \o "lessons learned."

format_output(drift, session_info, times_shown) ==
  LET high   == SelectSeq(drift, LAMBDA d : d.priority = "HIGH")
      medium == SelectSeq(drift, LAMBDA d : d.priority = "MEDIUM")
      parts  ==
        (IF drift # << >> /\ high # << >>
         THEN << TierPart("HIGH - auto-update recommended", "update", high,
                          times_shown) >>
         ELSE << >>)
        \o (IF drift # << >> /\ medium # << >>
            THEN << TierPart("MEDIUM - mention to user", "consider", medium,
                             times_shown) >>
            ELSE << >>)
        \o (IF session_info.found /\ session_info.score >= DEBUG_SCORE_THRESHOLD
            THEN << SessionPart(session_info) >>
            ELSE << >>)
  IN StrJoin("\n\n", parts)

(***************************************************************************)
(* main().  A run is given its command line and what it reads from its     *)
(* surroundings: whether a repository root is found, what git rev-parse    *)
(* answers, what drift detection returns and what the session logs hold.   *)
(* It returns what it printed and the state file it leaves.                *)
(***************************************************************************)
Run(argv, repo_root, rev_parse, flagged, session_info) ==
  [ argv |-> argv, repo_root |-> repo_root, rev_parse |-> rev_parse,
    flagged |-> flagged, session_info |-> session_info ]

RevParse(returncode, stdout) == [ returncode |-> returncode, stdout |-> stdout ]

\* git rev-parse failed (128) or timed out
RevParseFailed == RevParse(128, "")

Printed(text, file) == [ output |-> text, state_file |-> file ]

\* the --dismiss branch: record HEAD as shown DISMISS_MAX_SHOWS times
Dismiss(r, file) ==
  LET head == get_head_sha(r.rev_parse)
  IN IF head # None
     THEN Printed("Drift warnings dismissed at " \o SubSeq(head, 1, 8) \o ".",
                  save_state(file, StateDict(head, DISMISS_MAX_SHOWS)))
     ELSE Printed("", file)

\* the check: deduplicate, auto-dismiss, print
Check(r, file) ==
  LET drift == Deduplicate(r.flagged)
      head  == get_head_sha(r.rev_parse)
      after == AutoDismiss(drift, head, file)
  IN Printed(format_output(after.drift, r.session_info, after.times_shown),
             after.state_file)

main(r, file) ==
  IF ~r.repo_root THEN Printed("", file)
  ELSE IF r.argv = "--dismiss" THEN Dismiss(r, file)
  ELSE Check(r, file)

\* no run yet
NoRun == Run("none", FALSE, RevParseFailed, << >>, NoSession)

\* the text every drift warning starts with
DriftWarningIn(text) == StrContains(text, "CONTEXT DRIFT [")

\* the drift checker before its first run, in a repository at its first
\* commit with no state file
DriftCheckerIdle ==
  /\ HEAD = Sha(1)
  /\ state_file = StateFileAbsent
  /\ run = NoRun
  /\ output = ""
  /\ shown = 0
  /\ dismissed = None
(***************************************************************************)
(* The callers.  A caller composes a string from fragments and calls the   *)
(* tools with it, in any order and any number of times.                    *)
(***************************************************************************)
Fragments ==
  { "ui", "menu", "build", " ", "hot path", "sync", "kill", "Combat", "debuff",
    "lock-on" }

\* strings a caller may start from: the empty text and whole requests (and,
\* in Init, every key of the subsystem index)
InitTexts ==
  { "", "redesign the ui menu flow", "fix the sync issue", "game design",
    "sync enemy powerup damage", "batch kill", "save enemy spawn",
    "ui game design", "combatRng" }

Init ==
  /\ SUBSYSTEMS \in SubsystemIndexes
  /\ AGENTS \in AgentRegistries
  /\ context_dir = ContextDirPresent
  /\ task \in InitTexts \cup { SUBSYSTEMS[i].key : i \in 1..Len(SUBSYSTEMS) }
  /\ op = "none"
  /\ arg = None
  /\ result = None
  /\ matches = << >>
  /\ DriftCheckerIdle

\* the caller appends a fragment to the text of its next request; the
\* response to the previous request is dropped
Compose ==
  \E f \in Fragments :
    /\ Len(task) + Len(f) <= MaxTaskLen
    /\ task' = task \o f
    /\ op' = "none" /\ arg' = None /\ result' = None /\ matches' = << >>
    /\ UNCHANGED << SUBSYSTEMS, AGENTS, context_dir, drift_vars >>

\* the caller starts the text of a new request
NewRequest ==
  /\ task # ""
  /\ task' = ""
  /\ op' = "none" /\ arg' = None /\ result' = None /\ matches' = << >>
  /\ UNCHANGED << SUBSYSTEMS, AGENTS, context_dir, drift_vars >>

\* a suggest_agent that moves the recommended agent to the front of the
\* registry
CallSuggestAgentPromoting ==
  /\ op' = "suggest_agent"
  /\ arg' = task
  /\ matches' = suggest_agent_matches(AGENTS, task)
  /\ result' = SuggestAgentResult(task, matches')
  /\ AGENTS' = (IF matches' = << >> THEN AGENTS
                ELSE SelectSeq(AGENTS, LAMBDA info : info.agent = matches'[1].agent)
                       \o SelectSeq(AGENTS, LAMBDA info : info.agent # matches'[1].agent))
  /\ UNCHANGED << SUBSYSTEMS, context_dir, task, drift_vars >>

CallSuggestAgent ==
  /\ op' = "suggest_agent"
  /\ arg' = task
  /\ matches' = suggest_agent_matches(AGENTS, task)
  /\ result' = SuggestAgentResult(task, matches')
  /\ UNCHANGED << SUBSYSTEMS, AGENTS, context_dir, task, drift_vars >>

CallListAgents ==
  /\ op' = "list_agents"
  /\ arg' = None
  /\ matches' = << >>
  /\ result' = list_agents(AGENTS)
  /\ UNCHANGED << SUBSYSTEMS, AGENTS, context_dir, task, drift_vars >>

CallListSubsystems ==
  /\ op' = "list_subsystems"
  /\ arg' = None
  /\ matches' = << >>
  /\ result' = list_subsystems(SUBSYSTEMS)
  /\ UNCHANGED << SUBSYSTEMS, AGENTS, context_dir, task, drift_vars >>

CallGetFilesForSubsystem ==
  /\ op' = "get_files_for_subsystem"
  /\ arg' = task
  /\ matches' = << >>
  /\ result' = get_files_for_subsystem(SUBSYSTEMS, task)
  /\ UNCHANGED << SUBSYSTEMS, AGENTS, context_dir, task, drift_vars >>

CallFindRelevantContext ==
  /\ op' = "find_relevant_context"
  /\ arg' = task
  /\ matches' = find_relevant_context_matches(SUBSYSTEMS, task)
  /\ result' = FindRelevantContextResult(task, matches')
  /\ UNCHANGED << SUBSYSTEMS, AGENTS, context_dir, task, drift_vars >>

CallGetContextFiles ==
  /\ op' = "get_context_files"
  /\ arg' = None
  /\ matches' = << >>
  /\ result' = get_context_files(context_dir)
  /\ UNCHANGED << SUBSYSTEMS, AGENTS, context_dir, task, drift_vars >>

CallSearchContextDocuments ==
  /\ op' = "search_context_documents"
  /\ arg' = task
  /\ matches' = << >>
  /\ result' = search_context_documents(SUBSYSTEMS, context_dir, task)
  /\ UNCHANGED << SUBSYSTEMS, AGENTS, context_dir, task, drift_vars >>

Next ==
  \/ Compose
  \/ NewRequest
  \/ CallSuggestAgent
  \/ CallListAgents
  \/ CallListSubsystems
  \/ CallGetFilesForSubsystem
  \/ CallFindRelevantContext
  \/ CallGetContextFiles
  \/ CallSearchContextDocuments

Spec == Init /\ [][Next]_vars


(***************************************************************************)
(* The documentation directory changes on disk between two requests: it is *)
(* removed or created, and the read of one of its files starts or stops    *)
(* failing (the file loses its permissions, is replaced by bytes that are  *)
(* not UTF-8, or is deleted after glob() has listed it).                   *)
(***************************************************************************)
RemoveContextDir ==
  /\ op = "none"
  /\ context_dir.exists
  /\ context_dir' = ContextDirAbsent
  /\ UNCHANGED << SUBSYSTEMS, AGENTS, task, op, arg, result, matches, drift_vars >>

CreateContextDir ==
  /\ op = "none"
  /\ ~context_dir.exists
  /\ context_dir' = ContextDirPresent
  /\ UNCHANGED << SUBSYSTEMS, AGENTS, task, op, arg, result, matches, drift_vars >>

ReadStartsFailing ==
  /\ op = "none"
  /\ \E i \in 1..Len(context_dir.entries) :
       /\ EndsWith(context_dir.entries[i].name, ".md")
       /\ context_dir.entries[i].readable
       /\ context_dir' = [ context_dir EXCEPT !.entries[i].readable = FALSE ]
  /\ UNCHANGED << SUBSYSTEMS, AGENTS, task, op, arg, result, matches, drift_vars >>

ReadStopsFailing ==
  /\ op = "none"
  /\ \E i \in 1..Len(context_dir.entries) :
       /\ ~context_dir.entries[i].readable
       /\ context_dir' = [ context_dir EXCEPT !.entries[i].readable = TRUE ]
  /\ UNCHANGED << SUBSYSTEMS, AGENTS, task, op, arg, result, matches, drift_vars >>

\* a server started with the registry that repeats a trigger
RegistryInit ==
  /\ SUBSYSTEMS \in SubsystemIndexes
  /\ AGENTS = RepeatedTriggerAgents
  /\ context_dir = ContextDirPresent
  /\ task \in InitTexts
  /\ op = "none"
  /\ arg = None
  /\ result = None
  /\ matches = << >>
  /\ DriftCheckerIdle

RegistrySpec == RegistryInit /\ [][Next]_vars

\* the queries a caller of the document search may start from
InitQueries == InitTexts \cup { "crit" }

DocInit ==
  /\ SUBSYSTEMS \in SubsystemIndexes
  /\ AGENTS = ShippedAgents
  /\ context_dir \in { ContextDirPresent, ContextDirAbsent }
  /\ task \in InitQueries
  /\ op = "none"
  /\ arg = None
  /\ result = None
  /\ matches = << >>
  /\ DriftCheckerIdle

DocNext ==
  \/ Compose
  \/ NewRequest
  \/ RemoveContextDir
  \/ CreateContextDir
  \/ ReadStartsFailing
  \/ ReadStopsFailing
  \/ CallGetContextFiles
  \/ CallSearchContextDocuments

DocSpec == DocInit /\ [][DocNext]_vars


(***************************************************************************)
(* The runs of the drift checker.  Every session start runs main() once;   *)
(* the user may run it with --dismiss; between two runs the repository     *)
(* moves to another commit (a commit, a checkout, a reset).                *)
(***************************************************************************)
\* what git rev-parse HEAD may answer while the repository is at HEAD
RevParseAnswers == { RevParse(0, HEAD), RevParseFailed }

\* the state file a repository may start with: none, one of no bytes, {}
InitStateFiles ==
  { StateFileAbsent, StateFile(TRUE, "", TRUE), StateFile(TRUE, "{}", TRUE) }

DriftInit ==
  /\ SUBSYSTEMS = ShippedSubsystems
  /\ AGENTS = ShippedAgents
  /\ context_dir = ContextDirPresent
  /\ task = ""
  /\ op = "none"
  /\ arg = None
  /\ result = None
  /\ matches = << >>
  /\ HEAD \in Commits
  /\ state_file \in InitStateFiles
  /\ run = NoRun
  /\ output = ""
  /\ shown = 0
  /\ dismissed = None

\* one more run that printed the drift warning
CountShown(text) ==
  IF DriftWarningIn(text) /\ shown <= DISMISS_MAX_SHOWS THEN shown + 1 ELSE shown

\* python3 context-drift-check.py --dismiss
RunDismiss ==
  \E repo_root \in BOOLEAN, rev_parse \in RevParseAnswers :
    LET r    == Run("--dismiss", repo_root, rev_parse, << >>, NoSession)
        done == main(r, state_file)
    IN /\ run' = r
       /\ output' = done.output
       /\ state_file' = done.state_file
       /\ shown' = CountShown(done.output)
       /\ dismissed' = (IF repo_root /\ get_head_sha(rev_parse) # None
                        THEN get_head_sha(rev_parse) ELSE dismissed)
       /\ UNCHANGED << HEAD, server_vars >>

\* python3 context-drift-check.py
RunCheck ==
  \E repo_root \in BOOLEAN, rev_parse \in RevParseAnswers,
     flagged \in DriftOutcomes, session_info \in SessionInfos :
    LET r    == Run("", repo_root, rev_parse, flagged, session_info)
        done == main(r, state_file)
    IN /\ run' = r
       /\ output' = done.output
       /\ state_file' = done.state_file
       /\ shown' = CountShown(done.output)
       /\ UNCHANGED << HEAD, dismissed, server_vars >>

\* the repository moves to another commit; the output of the last run is
\* gone with its session
MoveHead ==
  \E h \in Commits \ { HEAD } :
    /\ HEAD' = h
    /\ run' = NoRun
    /\ output' = ""
    /\ shown' = 0
    /\ dismissed' = None
    /\ UNCHANGED << state_file, server_vars >>

DriftNext ==
  \/ RunDismiss
  \/ RunCheck
  \/ MoveHead

DriftSpec == DriftInit /\ [][DriftNext]_vars
(***************************************************************************)
(* Properties.  The notions the properties speak of are stated here on the *)
(* characters of the strings, independently of the operators above.        *)
(***************************************************************************)
\* a occurs in the lower-cased text as a contiguous substring
OccursInLowered(a, text) ==
  \E o \in 0..(Len(text) - Len(a)) :
    \A k \in 1..Len(a) : CharAt(a, k) = LowerChar(CharAt(text, o + k))

\* the lower-cased form of a occurs in the lower-cased text
LoweredOccursInLowered(a, text) ==
  \E o \in 0..(Len(text) - Len(a)) :
    \A k \in 1..Len(a) : LowerChar(CharAt(a, k)) = LowerChar(CharAt(text, o + k))

\* the k-th smallest element of a finite set of numbers
NthOf(S, k) == CHOOSE i \in S : Cardinality({ j \in S : j <= i }) = k

\* the entries of xs at the positions S, in order
SubList(xs, S) == [ k \in 1..Cardinality(S) |-> xs[NthOf(S, k)] ]

\* the position at which a subsystem key was loaded into the index
LoadPosition(key) == CHOOSE i \in 1..Len(SUBSYSTEMS) : SUBSYSTEMS[i].key = key

\* the positions of the keywords of a subsystem that occur in the text
KeywordHits(info, text) ==
  { k \in 1..Len(info.keywords) : OccursInLowered(info.keywords[k], text) }

\* the score the scoring rule gives a subsystem on a text
RuleSubsystemScore(info, text) ==
  Cardinality(KeywordHits(info, text))
    + (IF LoweredOccursInLowered(info.name, text) THEN 2 ELSE 0)

C2_RankingStable ==
  op = "find_relevant_context" =>
    \A a, b \in 1..Len(result.relevant_subsystems) :
      a < b =>
        LET x == result.relevant_subsystems[a]
            y == result.relevant_subsystems[b]
        IN  /\ x.score >= y.score
            /\ x.score = y.score => LoadPosition(x.subsystem) < LoadPosition(y.subsystem)

\* C2 witness: a ranking in which the sort moved a later-loaded subsystem
\* ahead of an earlier one and left two of equal score in load order
C2_Witness ==
  /\ op = "find_relevant_context"
  /\ \E a, b \in 1..Len(result.relevant_subsystems) :
       /\ a < b
       /\ LoadPosition(result.relevant_subsystems[a].subsystem)
            > LoadPosition(result.relevant_subsystems[b].subsystem)
  /\ \E a, b \in 1..Len(result.relevant_subsystems) :
       /\ a < b
       /\ result.relevant_subsystems[a].score = result.relevant_subsystems[b].score

\* the number of words of a trigger: the places where a run of
\* non-whitespace characters starts
WordCount(trigger) ==
  Cardinality({ i \in 1..Len(trigger) :
                  /\ ~IsSpaceChar(CharAt(trigger, i))
                  /\ i = 1 \/ IsSpaceChar(CharAt(trigger, i - 1)) })

\* the lower-cased text holds a whole word at the positions i..j: a run of
\* word characters with no word character before or after it
IsWordSpan(text, i, j) ==
  /\ 1 <= i /\ i <= j /\ j <= Len(text)
  /\ \A k \in i..j : IsWordChar(LowerChar(CharAt(text, k)))
  /\ i = 1 \/ ~IsWordChar(LowerChar(CharAt(text, i - 1)))
  /\ j = Len(text) \/ ~IsWordChar(LowerChar(CharAt(text, j + 1)))

\* w is one of the whole-word tokens of the lower-cased text
IsTokenOf(w, text) ==
  \E i \in 1..Len(text) :
    /\ IsWordSpan(text, i, i + Len(w) - 1)
    /\ \A k \in 1..Len(w) : CharAt(w, k) = LowerChar(CharAt(text, i + k - 1))

\* the matching rule of suggest_agent for one trigger
RuleTriggerMatches(trigger, text) ==
  IF WordCount(trigger) = 1
  THEN IsTokenOf(trigger, text)
  ELSE OccursInLowered(trigger, text)

\* the positions of the triggers of an agent that match the text
TriggerHits(info, text) ==
  { k \in 1..Len(info.triggers) : RuleTriggerMatches(info.triggers[k], text) }

\* the uniqueness count the score uses for a trigger: the number of places
\* at which the trigger lists of the registry name it
AgentCount(trigger) ==
  Cardinality(UNION { { << a, k >> : k \in { n \in 1..Len(AGENTS[a].triggers) :
                                               AGENTS[a].triggers[n] = trigger } } :
                      a \in 1..Len(AGENTS) })

\* wordCount(trigger) * (1 + 1/agentCount(trigger)), times ScoreDen
RuleTriggerTerm(trigger) ==
  WordCount(trigger) * (ScoreDen + ScoreDen \div AgentCount(trigger))

RECURSIVE SumOfTerms(_, _)
\* the sum of the terms of the triggers at the positions S
SumOfTerms(info, S) ==
  IF S = {} THEN 0
  ELSE LET k == CHOOSE n \in S : TRUE
       IN  RuleTriggerTerm(info.triggers[k]) + SumOfTerms(info, S \ {k})

\* some token of the text that is longer than 3 characters occurs in the
\* lower-cased description of the agent
DescriptionHit(info, text) ==
  \E i, j \in 1..Len(text) :
    /\ IsWordSpan(text, i, j)
    /\ j - i + 1 > 3
    /\ \E o \in 0..(Len(info.description) - (j - i + 1)) :
         \A k \in 1..(j - i + 1) :
           LowerChar(CharAt(info.description, o + k)) = LowerChar(CharAt(text, i + k - 1))

\* the score the scoring rule gives an agent on a text, times ScoreDen
RuleAgentScore(info, text) ==
  SumOfTerms(info, TriggerHits(info, text))
    + (IF DescriptionHit(info, text) THEN ScoreDen \div 2 ELSE 0)

\* the places of an agent in the ranking of the last suggest_agent call
RankedAt(agent) == { j \in 1..Len(matches) : matches[j].agent = agent }

\* C3: in suggest_agent the score of every agent is the sum, over its
\* matched triggers, of wordCount * (1 + 1/agentCount), plus 0.5, once, when
\* a token of the text longer than 3 characters occurs in its lower-cased
\* description; matched_triggers is the list of the triggers that
\* contributed.  (Scores are kept times ScoreDen, which every count divides.)
C3_AgentScore ==
  op = "suggest_agent" =>
    /\ \A a \in 1..Len(AGENTS) :
         LET info  == AGENTS[a]
             hits  == TriggerHits(info, arg)
             score == RuleAgentScore(info, arg)
         IN  /\ \A k \in hits : ScoreDen % AgentCount(info.triggers[k]) = 0
             /\ Cardinality(RankedAt(info.agent)) = (IF score > 0 THEN 1 ELSE 0)
             /\ \A j \in RankedAt(info.agent) :
                  /\ matches[j].score = score
                  /\ matches[j].matched_triggers = SubList(info.triggers, hits)
    /\ \A r \in 1..Len(result.suggested_agents) :
         \E j \in 1..Len(matches) : matches[j] = result.suggested_agents[r]

\* C3 witness: an agent ranked with two matched triggers and the bonus of
\* its description
C3_Witness ==
  /\ op = "suggest_agent"
  /\ \E a \in 1..Len(AGENTS) :
       /\ Cardinality(TriggerHits(AGENTS[a], arg)) = 2
       /\ DescriptionHit(AGENTS[a], arg)
       /\ \E j \in RankedAt(AGENTS[a].agent) :
            matches[j].score = RuleAgentScore(AGENTS[a], arg)

\* the triggers the last suggest_agent call reports as matched for an agent
ReportedTriggers(agent) ==
  UNION { { matches[j].matched_triggers[n] :
              n \in 1..Len(matches[j].matched_triggers) } : j \in RankedAt(agent) }

\* C4: a single-word trigger matches exactly when it is one of the
\* whole-word tokens of the lower-cased text (so ui inside build does not
\* match), a multi-word trigger exactly when the phrase occurs in the
\* lower-cased text as a contiguous substring.
C4_TriggerMatching ==
  op = "suggest_agent" =>
    /\ \A a \in 1..Len(AGENTS) : \A k \in 1..Len(AGENTS[a].triggers) :
         LET trigger  == AGENTS[a].triggers[k]
             reported == trigger \in ReportedTriggers(AGENTS[a].agent)
         IN  /\ WordCount(trigger) = 1 => (reported <=> IsTokenOf(trigger, arg))
             /\ WordCount(trigger) > 1 => (reported <=> OccursInLowered(trigger, arg))
    /\ arg = "build" => \A j \in 1..Len(matches) :
         \A n \in 1..Len(matches[j].matched_triggers) : matches[j].matched_triggers[n] # "ui"

\* C4 witness: the text build contains the trigger ui only inside a word,
\* and no agent reports ui
C4_Witness ==
  /\ op = "suggest_agent"
  /\ arg = "build"
  /\ OccursInLowered("ui", arg)
  /\ \E a \in 1..Len(AGENTS) : \E k \in 1..Len(AGENTS[a].triggers) :
       AGENTS[a].triggers[k] = "ui" /\ "ui" \notin ReportedTriggers(AGENTS[a].agent)

\* the highest score of the ranking, 0 when no agent scored
TopScore ==
  IF matches = << >> THEN 0
  ELSE CHOOSE s \in { matches[j].score : j \in 1..Len(matches) } :
         \A j \in 1..Len(matches) : matches[j].score <= s

\* C5: confidence is high for a top score of at least 4, medium from 2 to
\* below 4, low from 1 to below 2, none otherwise, also when no agent
\* scored; should_invoke is true exactly for high and medium.
C5_ConfidenceTiers ==
  op = "suggest_agent" =>
    /\ TopScore >= 4 * ScoreDen => result.confidence = "high"
    /\ (TopScore >= 2 * ScoreDen /\ TopScore < 4 * ScoreDen) => result.confidence = "medium"
    /\ (TopScore >= 1 * ScoreDen /\ TopScore < 2 * ScoreDen) => result.confidence = "low"
    /\ TopScore < 1 * ScoreDen => result.confidence = "none"
    /\ result.should_invoke <=> result.confidence \in { "high", "medium" }

\* C5 witness: a top score of exactly 2, the lower edge of medium
C5_Witness ==
  /\ op = "suggest_agent"
  /\ TopScore = 2 * ScoreDen
  /\ result.confidence = "medium"
  /\ result.should_invoke

\* the places of the ranking whose score is the top score
TopPlaces == { j \in 1..Len(matches) : matches[j].score = TopScore }

\* C6: when two or more agents share the highest score (agents with score
\* 0 are dropped and have no rank), the result has a disambiguation note
\* that names exactly the agents with that score, also those beyond the
\* three returned in suggested_agents.
C6_TieNote ==
  op = "suggest_agent" =>
    (Cardinality(TopPlaces) >= 2 =>
       /\ "disambiguation" \in DOMAIN result
       /\ result.disambiguation
            = "Tied between "
                \o StrJoin(", ", [ k \in 1..Cardinality(TopPlaces) |->
                                     matches[NthOf(TopPlaces, k)].agent ])
                \o ". Check which files you're modifying to decide.")

\* C6 witness: four agents share the top score, one more than are returned
C6_Witness ==
  /\ op = "suggest_agent"
  /\ Cardinality(TopPlaces) = 4
  /\ Len(result.suggested_agents) = 3
  /\ "disambiguation" \in DOMAIN result

\* no trigger of any agent matches the text and no token of the text that
\* is longer than 3 characters occurs in any description
NothingMatches(text) ==
  \A a \in 1..Len(AGENTS) :
    /\ TriggerHits(AGENTS[a], text) = {}
    /\ ~DescriptionHit(AGENTS[a], text)

\* C7: a text that matches nothing gets the normal result with confidence
\* none, should_invoke false, recommendation null and no suggested agents.
C7_NoMatch ==
  (op = "suggest_agent" /\ NothingMatches(arg)) =>
    /\ DOMAIN result
         = { "task", "recommendation", "confidence", "suggested_agents", "should_invoke" }
    /\ result.task = arg
    /\ result.confidence = "none"
    /\ result.should_invoke = FALSE
    /\ result.recommendation = None
    /\ result.suggested_agents = << >>

\* C7 witness: a non-empty text that matches nothing
C7_Witness ==
  /\ op = "suggest_agent"
  /\ arg # ""
  /\ NothingMatches(arg)
  /\ result.confidence = "none"

\* the documented scenario: the registry of ui-and-ux-agent (ui, menu) and
\* systems-designer (ui too) is asked about "redesign the ui menu flow"
ScenarioCall ==
  /\ AGENTS = ScenarioAgents
  /\ op = "suggest_agent"
  /\ arg = "redesign the ui menu flow"

\* in the scenario ui is listed by two agents and adds 1.5, menu by one and
\* adds 2, and ui-and-ux-agent is ranked with exactly these two triggers
ScenarioTriggerTotal ==
  /\ AgentCount("ui") = 2
  /\ AgentCount("menu") = 1
  /\ 2 * RuleTriggerTerm("ui") = 3 * ScoreDen
  /\ RuleTriggerTerm("menu") = 2 * ScoreDen
  /\ \E j \in RankedAt("ui-and-ux-agent") :
       matches[j].matched_triggers = << "ui", "menu" >>

\* C8 as stated: in the scenario the trigger total of ui-and-ux-agent is
\* 3.5 and the confidence tier of the result is medium.
C8_ScenarioMedium ==
  ScenarioCall => (ScenarioTriggerTotal /\ result.confidence = "medium")

\* C8 amended: in the scenario the trigger total of ui-and-ux-agent is 3.5;
\* the token menu occurs in its shipped description (in "menus"), the bonus
\* makes its score 4.0, and the confidence tier of the result is high.
C8_ScenarioHigh ==
  ScenarioCall =>
    /\ ScenarioTriggerTotal
    /\ DescriptionHit(Agent_ui_and_ux_agent, arg)
    /\ \E j \in RankedAt("ui-and-ux-agent") :
         /\ j = 1
         /\ 2 * matches[j].score = (7 + 1) * ScoreDen
    /\ result.recommendation = "ui-and-ux-agent"
    /\ result.confidence = "high"

\* C8 witness: the scenario call has returned, with confidence high
C8_Witness == ScenarioCall /\ result.confidence = "high"

\* arg is no key of the subsystem index
UnknownKey == \A i \in 1..Len(SUBSYSTEMS) : SUBSYSTEMS[i].key # arg

\* C9: for a string that is no key of the index, get_files_for_subsystem
\* returns the error payload, whose list `available` holds the keys of all
\* loaded subsystems, each once, in load order.
C9_UnknownKeyError ==
  (op = "get_files_for_subsystem" /\ UnknownKey) =>
    /\ DOMAIN result = { "error", "available" }
    /\ result.error = "Unknown subsystem: " \o arg
    /\ Len(result.available) = Len(SUBSYSTEMS)
    /\ \A i \in 1..Len(SUBSYSTEMS) : result.available[i] = SUBSYSTEMS[i].key
    /\ \A i, j \in 1..Len(result.available) :
         result.available[i] = result.available[j] => i = j

\* C9 witness: Combat, which differs from the key combat in case only, is
\* answered with the error payload
C9_Witness ==
  /\ op = "get_files_for_subsystem"
  /\ arg = "Combat"
  /\ UnknownKey
  /\ "error" \in DOMAIN result

\* the keys list_subsystems returns in this state
ListedKeys ==
  { list_subsystems(SUBSYSTEMS)[i].key : i \in 1..Len(list_subsystems(SUBSYSTEMS)) }

\* C10: for every key that list_subsystems returns, get_files_for_subsystem
\* returns the success result (subsystem, name, description, and the files
\* each prefixed with the base path), never the not-found error, whatever
\* queries ran before.
C10_ListedKeysResolve ==
  (op = "get_files_for_subsystem" /\ arg \in ListedKeys) =>
    /\ DOMAIN result = { "subsystem", "name", "description", "files" }
    /\ result.subsystem = arg
    /\ \E i \in 1..Len(SUBSYSTEMS) :
         /\ SUBSYSTEMS[i].key = arg
         /\ result.name = SUBSYSTEMS[i].name
         /\ result.description = SUBSYSTEMS[i].description
         /\ Len(result.files) = Len(SUBSYSTEMS[i].files)
         /\ \A n \in 1..Len(result.files) :
              result.files[n]
                = "GameProject/src/GameProject.Engine/" \o SUBSYSTEMS[i].files[n]

\* C10 witness: the last listed key, debug-console, resolves to its files
C10_Witness ==
  /\ op = "get_files_for_subsystem"
  /\ arg = "debug-console"
  /\ arg \in ListedKeys
  /\ "files" \in DOMAIN result
  /\ Len(result.files) = 3


\* the places of the file walk of find_relevant_context: file k of the
\* subsystem ranked r, for the three highest ranks
WalkSlots ==
  UNION { { << r, k >> : k \in 1..Len(matches[r].files) } :
          r \in { q \in 1..3 : q <= Len(matches) } }

\* slot s is walked before slot t
WalkedBefore(s, t) == s[1] < t[1] \/ (s[1] = t[1] /\ s[2] < t[2])

\* the path-qualified file at a slot of the walk
PathAt(s) == "GameProject/src/GameProject.Engine/" \o matches[s[1]].files[s[2]]

\* the slots at which the walk meets a path for the first time
FirstSlots ==
  { s \in WalkSlots : \A t \in WalkSlots : WalkedBefore(t, s) => PathAt(t) # PathAt(s) }

\* the number of new paths the walk has met when it leaves slot s
NewPathsUpTo(s) ==
  Cardinality({ t \in FirstSlots : t = s \/ WalkedBefore(t, s) })

\* C14: suggested_files is the first 10 entries of the list obtained by
\* walking the three highest-ranked subsystems in rank order, each in its own
\* file order, with the base path prefixed, keeping the first occurrence of
\* each path: no path appears twice, and a file of a subsystem ranked fourth
\* or lower appears only if one of the top three lists it.
C14_SuggestedFiles ==
  op = "find_relevant_context" =>
    LET files == result.suggested_files
        n     == Cardinality(FirstSlots)
    IN  /\ Len(files) = (IF n < 10 THEN n ELSE 10)
        /\ \A s \in FirstSlots :
             NewPathsUpTo(s) <= 10 => files[NewPathsUpTo(s)] = PathAt(s)
        /\ \A i, j \in 1..Len(files) : i # j => files[i] # files[j]
        /\ \A i \in 1..Len(files) : \E s \in WalkSlots : files[i] = PathAt(s)

\* C14 witness: damage is ranked ahead of combat, both list
\* CombatSystem.cs, and the tenth suggested file is the first file of combat
\* that damage does not list
C14_Witness ==
  /\ op = "find_relevant_context"
  /\ Len(matches) >= 3
  /\ matches[1].subsystem = "damage"
  /\ matches[2].subsystem = "combat"
  /\ Cardinality(WalkSlots) > Cardinality(FirstSlots)
  /\ Len(result.suggested_files) = 10
  /\ result.suggested_files[10]
       = "GameProject/src/GameProject.Engine/ECS/Systems/ProjectileSystem.cs"

\* the load positions of the subsystems the scoring rule gives at least 1
ScoredSubsystems(text) ==
  { i \in 1..Len(SUBSYSTEMS) : RuleSubsystemScore(SUBSYSTEMS[i], text) >= 1 }

\* the place of a scored subsystem in the full ranking: one more than the
\* number of scored subsystems with a higher score, or with the same score
\* and loaded earlier
FullRankOf(i, text) ==
  1 + Cardinality({ j \in ScoredSubsystems(text) :
        \/ RuleSubsystemScore(SUBSYSTEMS[j], text) > RuleSubsystemScore(SUBSYSTEMS[i], text)
        \/ /\ RuleSubsystemScore(SUBSYSTEMS[j], text) = RuleSubsystemScore(SUBSYSTEMS[i], text)
           /\ j < i })

\* C15: find_relevant_context returns at most 5 subsystems and at most 10
\* suggested files, and relevant_subsystems is the first 5 entries (all of
\* them, if fewer) of the full ranking of the subsystems with a score of at
\* least 1.
C15_ResultCaps ==
  op = "find_relevant_context" =>
    LET scored == ScoredSubsystems(arg)
        n      == Cardinality(scored)
    IN  /\ Len(result.relevant_subsystems) <= 5
        /\ Len(result.suggested_files) <= 10
        /\ Len(result.relevant_subsystems) = (IF n < 5 THEN n ELSE 5)
        /\ \A i \in scored :
             FullRankOf(i, arg) <= 5 =>
               LET entry == result.relevant_subsystems[FullRankOf(i, arg)]
               IN  /\ entry.subsystem = SUBSYSTEMS[i].key
                   /\ entry.name = SUBSYSTEMS[i].name
                   /\ entry.score = RuleSubsystemScore(SUBSYSTEMS[i], arg)
                   /\ entry.files = SUBSYSTEMS[i].files

\* C15 witness: seven subsystems score on the text, five are returned, and
\* more than 10 files were walked
C15_Witness ==
  /\ op = "find_relevant_context"
  /\ Cardinality(ScoredSubsystems(arg)) = 7
  /\ Len(result.relevant_subsystems) = 5
  /\ Len(result.suggested_files) = 10
  /\ Cardinality(FirstSlots) > 10

\* the texts by which the caller may extend a text when a subsystem is
\* looked at: the fragments and the subsystem's own keywords
ExtensionsFor(info) ==
  Fragments \cup { info.keywords[k] : k \in 1..Len(info.keywords) }

\* the score a find_relevant_context call on the text gives the subsystem
\* (0 when the call does not rank it)
ScoreOn(info, text) == SubsystemScore(info, StrLower(text))

\* the score the last find_relevant_context call gave the subsystem
ScoreGiven(info) ==
  IF \E j \in 1..Len(matches) : matches[j].subsystem = info.key
  THEN matches[CHOOSE j \in 1..Len(matches) : matches[j].subsystem = info.key].score
  ELSE 0

\* C16: for every subsystem, when the text t of a find_relevant_context call
\* is extended by further text (appended or prepended, one of the
\* subsystem's keywords included), the score of the subsystem on the longer
\* text is at least its score on t.
C16_ScoreMonotone ==
  op = "find_relevant_context" =>
    \A i \in 1..Len(SUBSYSTEMS) :
      \A x \in ExtensionsFor(SUBSYSTEMS[i]) :
        /\ ScoreOn(SUBSYSTEMS[i], arg \o x) >= ScoreGiven(SUBSYSTEMS[i])
        /\ ScoreOn(SUBSYSTEMS[i], x \o arg) >= ScoreGiven(SUBSYSTEMS[i])

\* C16 witness: a subsystem ranked with a score of at least 1 whose score
\* grows when one of its keywords is appended, and one whose score stays
C16_Witness ==
  /\ op = "find_relevant_context"
  /\ \E i \in 1..Len(SUBSYSTEMS) : \E k \in 1..Len(SUBSYSTEMS[i].keywords) :
       /\ ScoreGiven(SUBSYSTEMS[i]) >= 1
       /\ ScoreOn(SUBSYSTEMS[i], arg \o SUBSYSTEMS[i].keywords[k])
            > ScoreGiven(SUBSYSTEMS[i])
  /\ \E i \in 1..Len(SUBSYSTEMS) : \E k \in 1..Len(SUBSYSTEMS[i].keywords) :
       /\ ScoreGiven(SUBSYSTEMS[i]) >= 1
       /\ ScoreOn(SUBSYSTEMS[i], arg \o SUBSYSTEMS[i].keywords[k])
            = ScoreGiven(SUBSYSTEMS[i])

\* the place of an agent id in the registry
RegistryPosition(agent) == CHOOSE a \in 1..Len(AGENTS) : AGENTS[a].agent = agent

\* C17: suggested_agents holds only agents with a score above 0, at most 3
\* of them, in non-increasing order of score with agents of equal score in
\* registry order; it is the prefix of the full ranking (every agent left
\* out scores no higher than, and among equals is registered after, every
\* agent returned), and recommendation is the id of its first entry, None
\* when it is empty.
C17_SuggestedAgents ==
  op = "suggest_agent" =>
    LET agents == result.suggested_agents
    IN  /\ Len(agents) <= 3
        /\ Len(agents) = (IF Len(matches) < 3 THEN Len(matches) ELSE 3)
        /\ \A r \in 1..Len(agents) : agents[r] = matches[r] /\ agents[r].score > 0
        /\ \A a, b \in 1..Len(matches) :
             a < b =>
               /\ matches[a].score >= matches[b].score
               /\ matches[a].score = matches[b].score =>
                    RegistryPosition(matches[a].agent) < RegistryPosition(matches[b].agent)
        /\ \A a \in 1..Len(AGENTS) :
             /\ Cardinality(RankedAt(AGENTS[a].agent)) <= 1
             /\ RankedAt(AGENTS[a].agent) = {} <=>
                  (TriggerHits(AGENTS[a], arg) = {} /\ ~DescriptionHit(AGENTS[a], arg))
        /\ result.recommendation = (IF agents = << >> THEN None ELSE agents[1].agent)

\* C17 witness: more than three agents score, three are returned, the first
\* outscores the second, the second and third tie, and the first entry is
\* the recommendation
C17_Witness ==
  /\ op = "suggest_agent"
  /\ Len(matches) > 3
  /\ Len(result.suggested_agents) = 3
  /\ result.suggested_agents[1].score > result.suggested_agents[2].score
  /\ result.suggested_agents[2].score = result.suggested_agents[3].score
  /\ result.recommendation = result.suggested_agents[1].agent

\* C18: list_subsystems returns one entry per loaded subsystem and
\* list_agents one entry per registered agent, in load order; an entry
\* carries exactly name, description and keywords (subsystems, no file list)
\* or name, description, model and triggers (agents), with the values of the
\* registry.
C18_Listings ==
  /\ op = "list_subsystems" =>
       /\ Len(result) = Len(SUBSYSTEMS)
       /\ \A i \in 1..Len(SUBSYSTEMS) :
            /\ result[i].key = SUBSYSTEMS[i].key
            /\ DOMAIN result[i].value = { "name", "description", "keywords" }
            /\ result[i].value.name = SUBSYSTEMS[i].name
            /\ result[i].value.description = SUBSYSTEMS[i].description
            /\ result[i].value.keywords = SUBSYSTEMS[i].keywords
  /\ op = "list_agents" =>
       /\ Len(result) = Len(AGENTS)
       /\ \A a \in 1..Len(AGENTS) :
            /\ result[a].key = AGENTS[a].agent
            /\ DOMAIN result[a].value = { "name", "description", "model", "triggers" }
            /\ result[a].value.name = AGENTS[a].name
            /\ result[a].value.description = AGENTS[a].description
            /\ result[a].value.model = AGENTS[a].model
            /\ result[a].value.triggers = AGENTS[a].triggers

\* C18 witness: a listing of several subsystems whose first and last entries
\* are the first and last loaded and carry no file list, returned after the
\* caller has composed a text
C18_Witness ==
  /\ op = "list_subsystems"
  /\ task # ""
  /\ Len(result) > 1
  /\ result[1].key = SUBSYSTEMS[1].key
  /\ result[Len(result)].key = SUBSYSTEMS[Len(SUBSYSTEMS)].key
  /\ SUBSYSTEMS[1].files # << >>
  /\ "files" \notin DOMAIN result[1].value

\* the line on which position p of a text lies: one more than the number
\* of line breaks before p (a line break lies on the line it ends)
LineOf(content, p) ==
  1 + Cardinality({ i \in 1..(p - 1) : i <= Len(content) /\ CharAt(content, i) = "\n" })

\* the offsets at which the lower-cased query occurs in the lower-cased text
\* without crossing a line break
QueryOffsets(content, query) ==
  { o \in 0..(Len(content) - Len(query)) :
      \A k \in 1..Len(query) :
        /\ CharAt(content, o + k) # "\n"
        /\ LowerChar(CharAt(content, o + k)) = LowerChar(CharAt(query, k)) }

\* the numbers of the lines of a text that contain the query, case ignored
MatchingLines(content, query) ==
  { LineOf(content, o + 1) : o \in QueryOffsets(content, query) }

\* the documents of the directory: the entries named *.md
Documents == { i \in 1..Len(context_dir.entries) :
                 \E stem \in { SubSeq(context_dir.entries[i].name, 1, n) :
                                 n \in 0..Len(context_dir.entries[i].name) } :
                   context_dir.entries[i].name = stem \o ".md" }

\* the entries of document_matches that belong to the file at place i
EntriesOf(i) ==
  { e \in 1..Len(result.document_matches) :
      result.document_matches[e].document \o ".md" = context_dir.entries[i].name }

\* a search_context_documents call has returned its result mapping
SearchReturned ==
  /\ op = "search_context_documents"
  /\ context_dir.exists

\* C11: for every query and every document that is read,
\* search_context_documents returns at most 10 match records, the records
\* are those of the first 10 matching lines in line order, and total_matches
\* is the number of lines of the document that contain the query, also when
\* more than 10 lines do; a document without a matching line has no entry.
C11_MatchCap ==
  SearchReturned =>
    \A i \in Documents :
      context_dir.entries[i].readable =>
        LET lines == MatchingLines(context_dir.entries[i].content, arg)
            n     == Cardinality(lines)
        IN  /\ Cardinality(EntriesOf(i)) = (IF n > 0 THEN 1 ELSE 0)
            /\ \A e \in EntriesOf(i) :
                 LET entry == result.document_matches[e]
                 IN  /\ Len(entry.matches) <= 10
                     /\ Len(entry.matches) = (IF n < 10 THEN n ELSE 10)
                     /\ \A k \in 1..Len(entry.matches) :
                          entry.matches[k].line_number = NthOf(lines, k)
                     /\ entry.total_matches = n
                     /\ entry.total_matches >= Len(entry.matches)

\* C11 witness: eleven lines of architecture.md hold the query, ten records
\* are returned, the tenth for line 12, and total_matches is 11
C11_Witness ==
  /\ SearchReturned
  /\ arg # ""
  /\ \E e \in 1..Len(result.document_matches) :
       /\ result.document_matches[e].document = "architecture"
       /\ result.document_matches[e].total_matches = 11
       /\ Len(result.document_matches[e].matches) = 10
       /\ result.document_matches[e].matches[10].line_number = 12

\* the directory without the documents whose read fails
WithoutFailingDocuments ==
  [ context_dir EXCEPT
      !.entries = SelectSeq(context_dir.entries, LAMBDA f : f.readable) ]

\* C12: in search_context_documents a document whose read fails has no
\* entry in document_matches and causes no error: the call returns its
\* result mapping, and document_matches and subsystem_matches are what they
\* would be if the failing documents did not exist.
C12_FailedReadSkipped ==
  SearchReturned =>
    /\ DOMAIN result = { "query", "document_matches", "subsystem_matches" }
    /\ \A i \in Documents : ~context_dir.entries[i].readable => EntriesOf(i) = {}
    /\ result = search_context_documents(SUBSYSTEMS, WithoutFailingDocuments, arg)

\* C12 witness: the read of the first document fails, it holds the query,
\* and the only entry returned is that of the second document
C12_Witness ==
  /\ SearchReturned
  /\ ~context_dir.entries[1].readable
  /\ MatchingLines(context_dir.entries[1].content, arg) # {}
  /\ Len(result.document_matches) = 1
  /\ result.document_matches[1].document \o ".md" = context_dir.entries[2].name
  /\ result.subsystem_matches # << >>

\* C13: when the documentation directory does not exist,
\* search_context_documents and get_context_files each return an error
\* payload, a mapping with the single field error, as their result.
C13_MissingDirectory ==
  (op \in { "search_context_documents", "get_context_files" } /\ ~context_dir.exists) =>
    /\ DOMAIN result = { "error" }
    /\ result.error = "Context directory not found"

\* C13 witness: a search for a word of the documents on a missing directory
\* returns the error payload
C13_Witness ==
  /\ op = "search_context_documents"
  /\ arg = "sync"
  /\ ~context_dir.exists
  /\ "error" \in DOMAIN result

\* C19: no query operation changes the subsystem index or the agent
\* registry: after any sequence of calls of the seven tools, with any
\* arguments, both are what they were at startup, and a call repeated with
\* the same argument returns the same result whatever ran in between on the
\* registries.
C19_RegistriesReadOnly ==
  [][ /\ SUBSYSTEMS' = SUBSYSTEMS
      /\ AGENTS' = AGENTS
      /\ (op # "none" /\ op' = op /\ arg' = arg) => result' = result ]_vars

\* C19 witness: a suggest_agent call has ranked a later-registered agent
\* first, and the registry is still the shipped one, in its own order
C19_Witness ==
  /\ op = "suggest_agent"
  /\ Len(matches) >= 2
  /\ RegistryPosition(matches[1].agent) > RegistryPosition(matches[2].agent)
  /\ AGENTS = ShippedAgents
  /\ SUBSYSTEMS = ShippedSubsystems

\* the number of distinct agents whose trigger list contains the trigger
DistinctAgents(trigger) ==
  Cardinality({ a \in 1..Len(AGENTS) :
                  \E k \in 1..Len(AGENTS[a].triggers) : AGENTS[a].triggers[k] = trigger })

\* C20: in suggest_agent the uniqueness count used in the score of a
\* matched trigger is the number of distinct agents whose trigger list
\* contains that exact phrase, an agent that lists the phrase more than once
\* being counted once, and the trigger adds wordCount * (1 + 1/count) for
\* that count.
C20_DistinctAgentCount ==
  op = "suggest_agent" =>
    \A a \in 1..Len(AGENTS) : \A k \in TriggerHits(AGENTS[a], arg) :
      LET trigger == AGENTS[a].triggers[k]
      IN  /\ trigger_agent_count(AGENTS, trigger) = DistinctAgents(trigger)
          /\ TriggerScore(AGENTS, trigger)
               = WordCount(trigger) * (ScoreDen + ScoreDen \div DistinctAgents(trigger))

\* the positions that bound the lines of a text: 0, the line breaks, and
\* one past the end
LineBounds(content) ==
  {0} \cup { i \in 1..Len(content) : CharAt(content, i) = "\n" } \cup { Len(content) + 1 }

\* the characters of the lines lo..hi of a text, line breaks between them
\* included
LinesText(content, lo, hi) ==
  SubSeq(content, NthOf(LineBounds(content), lo) + 1,
                  NthOf(LineBounds(content), hi + 1) - 1)

\* C21: a match record of search_context_documents for the line at 0-based
\* index i of a document of n lines has line_number i + 1, and its context
\* is the lines max(0, i-2) .. min(n-1, i+2), in order, joined by line
\* breaks: it holds the matching line and nothing outside the document.
C21_MatchContext ==
  SearchReturned =>
    \A d \in Documents : \A e \in EntriesOf(d) :
      LET content == context_dir.entries[d].content
          n       == Cardinality(LineBounds(content)) - 1
          records == result.document_matches[e].matches
      IN  \A r \in 1..Len(records) :
            LET i  == records[r].line_number - 1
                lo == IF i - 2 < 0 THEN 0 ELSE i - 2
                hi == IF i + 2 > n - 1 THEN n - 1 ELSE i + 2
            IN  /\ 0 <= i /\ i <= n - 1
                /\ i + 1 \in MatchingLines(content, arg)
                /\ records[r].context = LinesText(content, lo + 1, hi + 1)
                /\ lo <= i /\ i <= hi

\* C21 witness: one search returns a record for the first line of a
\* document, whose context is cut to three lines, a record with the full
\* five lines, and a record for the last line of a document
C21_Witness ==
  /\ SearchReturned
  /\ arg = "sync"
  /\ \E e \in 1..Len(result.document_matches) :
       LET records == result.document_matches[e].matches
       IN  /\ result.document_matches[e].document = "architecture"
           /\ records[1].line_number = 1
           /\ records[1].context = "# Sync\nsync a\nui sync"
           /\ records[4].line_number = 5
           /\ records[4].context = "ui sync\nmenu\nsync b\nSYNC c\nsync d"
  /\ \E e \in 1..Len(result.document_matches) :
       LET records == result.document_matches[e].matches
       IN  /\ result.document_matches[e].document = "network-operations"
           /\ records[1].line_number = 3
           /\ records[1].context = "ui menu\nhot path\nSync lock-on"

\* the places of the keywords of a subsystem whose lower-cased form contains
\* the lower-cased query
KeywordsHolding(info, query) ==
  { k \in 1..Len(info.keywords) : LoweredOccursInLowered(query, info.keywords[k]) }

\* the records of subsystem_matches that belong to the subsystem loaded at i
RecordsOf(i) ==
  { r \in 1..Len(result.subsystem_matches) :
      result.subsystem_matches[r].subsystem = SUBSYSTEMS[i].key }

\* C22: in search_context_documents every subsystem contributes at most one
\* record to subsystem_matches: one without matched_keyword when the
\* lower-cased query occurs in its lower-cased name or description,
\* otherwise one whose matched_keyword is the first keyword, in keyword
\* order, that contains the query, and none when neither holds; the records
\* are in load order.
C22_SubsystemCrossReference ==
  SearchReturned =>
    /\ \A i \in 1..Len(SUBSYSTEMS) :
         LET info   == SUBSYSTEMS[i]
             byText == \/ LoweredOccursInLowered(arg, info.name)
                       \/ LoweredOccursInLowered(arg, info.description)
             held   == KeywordsHolding(info, arg)
         IN  /\ Cardinality(RecordsOf(i)) = (IF byText \/ held # {} THEN 1 ELSE 0)
             /\ \A r \in RecordsOf(i) :
                  LET rec == result.subsystem_matches[r]
                  IN  /\ rec.name = info.name
                      /\ byText =>
                           /\ DOMAIN rec = { "subsystem", "name", "description" }
                           /\ rec.description = info.description
                      /\ ~byText =>
                           /\ DOMAIN rec = { "subsystem", "name", "matched_keyword" }
                           /\ rec.matched_keyword = info.keywords[NthOf(held, 1)]
    /\ \A r, s \in 1..Len(result.subsystem_matches) :
         r < s => LoadPosition(result.subsystem_matches[r].subsystem)
                    < LoadPosition(result.subsystem_matches[s].subsystem)

\* C22 witness: the query occurs in two keywords of combat and in neither
\* its name nor its description, and the first of the two is reported
C22_Witness ==
  /\ SearchReturned
  /\ \E i \in 1..Len(SUBSYSTEMS) :
       /\ Cardinality(KeywordsHolding(SUBSYSTEMS[i], arg)) >= 2
       /\ ~LoweredOccursInLowered(arg, SUBSYSTEMS[i].name)
       /\ ~LoweredOccursInLowered(arg, SUBSYSTEMS[i].description)
       /\ \E r \in RecordsOf(i) :
            result.subsystem_matches[r].matched_keyword
              = SUBSYSTEMS[i].keywords[NthOf(KeywordsHolding(SUBSYSTEMS[i], arg), 1)]
  /\ \E i \in 1..Len(SUBSYSTEMS) : RecordsOf(i) = {}

\* the trigger has no whitespace and holds a character that is not a word
\* character
IsPunctuatedWord(trigger) ==
  /\ \A i \in 1..Len(trigger) : ~IsSpaceChar(CharAt(trigger, i))
  /\ \E i \in 1..Len(trigger) : ~IsWordChar(CharAt(trigger, i))

\* the places of the triggers of an agent that are such words
PunctuatedTriggers(info) ==
  { k \in 1..Len(info.triggers) : IsPunctuatedWord(info.triggers[k]) }

\* C28: in suggest_agent a trigger that has no whitespace but holds a
\* character that is not a word character (lock-on, power-up, a*, pub/sub)
\* is matched for no task text, not even one that spells it out, and adds
\* nothing to the score of any agent.
C28_PunctuatedTriggerNeverMatches ==
  op = "suggest_agent" =>
    \A a \in 1..Len(AGENTS) :
      LET info  == AGENTS[a]
          plain == (1..Len(info.triggers)) \ PunctuatedTriggers(info)
      IN  /\ \A k \in PunctuatedTriggers(info) :
               info.triggers[k] \notin ReportedTriggers(info.agent)
          /\ \A j \in RankedAt(info.agent) :
               matches[j].score
                 = SumOfTerms(info, { k \in plain : RuleTriggerMatches(info.triggers[k], arg) })
                     + (IF DescriptionHit(info, arg) THEN ScoreDen \div 2 ELSE 0)

\* C28 witness: the text spells out lock-on, a trigger of systems-designer,
\* and the call does not report it
C28_Witness ==
  /\ op = "suggest_agent"
  /\ OccursInLowered("lock-on", arg)
  /\ \E a \in 1..Len(AGENTS) :
       /\ \E k \in PunctuatedTriggers(AGENTS[a]) : AGENTS[a].triggers[k] = "lock-on"
       /\ "lock-on" \notin ReportedTriggers(AGENTS[a].agent)

\* the upper-case form of a lower-case letter, any other character as it is
UpperChar(c) ==
  IF \E u \in DOMAIN LowerOf : LowerOf[u] = c
  THEN CHOOSE u \in DOMAIN LowerOf : LowerOf[u] = c
  ELSE c

RECURSIVE SwapCase(_)
\* the text with the case of every letter changed
SwapCase(text) ==
  IF text = "" THEN ""
  ELSE (IF Head(text) \in DOMAIN LowerOf THEN LowerOf[Head(text)] ELSE UpperChar(Head(text)))
         \o SwapCase(Tail(text))

\* the keyword holds an upper-case letter
HasUpperCase(keyword) == \E i \in 1..Len(keyword) : CharAt(keyword, i) \in DOMAIN LowerOf

\* C29: find_relevant_context lower-cases the task text and not the
\* keywords: a text that differs from the given one only in the case of its
\* letters gets the same ranking and the same suggested files (the result
\* echoes the text as it was passed), and a keyword that holds an upper-case
\* letter (combatRng, shotNumber) is counted for no text.
C29_CaseHandling ==
  op = "find_relevant_context" =>
    /\ LET other == find_relevant_context(SUBSYSTEMS, SwapCase(arg))
       IN  /\ other.relevant_subsystems = result.relevant_subsystems
           /\ other.suggested_files = result.suggested_files
           /\ other.architecture_resource = result.architecture_resource
           /\ find_relevant_context_matches(SUBSYSTEMS, SwapCase(arg)) = matches
    /\ \A j \in 1..Len(matches) : \A n \in 1..Len(matches[j].matched_keywords) :
         ~HasUpperCase(matches[j].matched_keywords[n])
    /\ \A i \in 1..Len(SUBSYSTEMS) :
         LET info  == SUBSYSTEMS[i]
             lower == { k \in 1..Len(info.keywords) : ~HasUpperCase(info.keywords[k]) }
         IN  \A j \in 1..Len(matches) :
               matches[j].subsystem = info.key =>
                 matches[j].score
                   = Cardinality(KeywordHits(info, arg) \cap lower)
                       + (IF LoweredOccursInLowered(info.name, arg) THEN 2 ELSE 0)

\* C29 witness: the text spells out the keyword combatRng of combat; combat
\* is ranked for its name and its keywords combat and rng, not for combatRng
C29_Witness ==
  /\ op = "find_relevant_context"
  /\ arg = "combatRng"
  /\ Len(matches) >= 1
  /\ matches[1].subsystem = "combat"
  /\ matches[1].score = 4
  /\ matches[1].matched_keywords = << "combat", "rng" >>

\* the agents with a token of the text, longer than 3 characters, in their
\* description
DescriptionAgents(text) == { a \in 1..Len(AGENTS) : DescriptionHit(AGENTS[a], text) }

\* no trigger of any agent matches the text, and some description holds one
\* of its longer tokens
OnlyDescriptionsMatch(text) ==
  /\ \A a \in 1..Len(AGENTS) : TriggerHits(AGENTS[a], text) = {}
  /\ DescriptionAgents(text) # {}

\* C30: when no trigger of any agent matches and a token longer than 3
\* characters occurs in the description of some agents, each of these agents
\* is ranked with the score 0.5 and no other agent is ranked; the result has
\* a recommendation, confidence none and should_invoke false, and when two
\* or more agents are ranked this way a disambiguation note naming them all.
C30_DescriptionOnly ==
  (op = "suggest_agent" /\ OnlyDescriptionsMatch(arg)) =>
    LET kept == DescriptionAgents(arg)
    IN  /\ Len(matches) = Cardinality(kept)
        /\ \A k \in 1..Len(matches) :
             /\ matches[k].agent = AGENTS[NthOf(kept, k)].agent
             /\ 2 * matches[k].score = ScoreDen
             /\ matches[k].matched_triggers = << >>
        /\ result.recommendation = AGENTS[NthOf(kept, 1)].agent
        /\ result.recommendation # None
        /\ result.confidence = "none"
        /\ result.should_invoke = FALSE
        /\ Cardinality(kept) >= 2 =>
             /\ "disambiguation" \in DOMAIN result
             /\ result.disambiguation
                  = "Tied between "
                      \o StrJoin(", ", [ k \in 1..Cardinality(kept) |-> AGENTS[NthOf(kept, k)].agent ])
                      \o ". Check which files you're modifying to decide."
        /\ Cardinality(kept) = 1 => "disambiguation" \notin DOMAIN result

\* C30 witness: no trigger matches, four agents are ranked at 0.5 for their
\* descriptions, the first is recommended with confidence none
C30_Witness ==
  /\ op = "suggest_agent"
  /\ OnlyDescriptionsMatch(arg)
  /\ Cardinality(DescriptionAgents(arg)) = 4
  /\ result.recommendation = "code-reviewer-game-dev"
  /\ result.confidence = "none"
  /\ ~result.should_invoke
  /\ "disambiguation" \in DOMAIN result

(***************************************************************************)
(* Properties of the drift checker.  They read the state file and the      *)
(* output as the texts they are.                                           *)
(***************************************************************************)
\* the decimal numeral of a one-digit number
Numeral(n) == SubSeq("0123456789", n + 1, n + 1)

\* the state file persists a state that records the commit h
PersistsHead(file, h) ==
  file.exists /\ StrContains(file.text, "\"head_sha\": \"" \o h \o "\"")

\* the state file persists a state that records n shows
PersistsTimesShown(file, n) ==
  file.exists /\ EndsWith(file.text, "\"times_shown\": " \o Numeral(n) \o "}")

\* the state file persists a state that is not empty
PersistsSomething(file) ==
  file.exists /\ StrContains(file.text, "\"head_sha\"")

\* the text of the state {"head_sha": h, "times_shown": n}
StateText(h, n) ==
  "{\"head_sha\": \"" \o h \o "\", \"times_shown\": " \o Numeral(n) \o "}"

\* the text displays the count n
Displays(text, n) == StrContains(text, "(showing " \o Numeral(n) \o "/")

\* the step is a run of main() without --dismiss that got as far as drift
\* detection
CheckRan == run'.argv = "" /\ run'.repo_root

\* the run of that step read HEAD
HeadKnown == run'.rev_parse.returncode = 0

\* C23: over any sequence of runs of main() during which HEAD does not
\* move, the code/doc drift warning is printed on at most DISMISS_MAX_SHOWS
\* runs, whatever drift detection returns on each run (shown counts the runs
\* that printed it since HEAD last moved).
C23_AtMostMaxShows == shown <= DISMISS_MAX_SHOWS

\* C24: after a run with --dismiss has recorded HEAD h, no later run prints
\* a code/doc drift warning for as long as HEAD is still h (dismissed is the
\* SHA such a run recorded since HEAD last moved).
C24_DismissedStaysSilent == dismissed # None => ~DriftWarningIn(output)

C27_CounterRange ==
  /\ \/ ~PersistsSomething(state_file)
     \/ \E n \in 1..DISMISS_MAX_SHOWS : PersistsTimesShown(state_file, n)
  /\ (DriftWarningIn(output) /\ run.rev_parse.returncode = 0)
       => \E n \in 1..DISMISS_MAX_SHOWS : Displays(output, n)

\* the last show before auto-dismiss: the warning displays DISMISS_MAX_SHOWS
\* and the state records it
C27_Witness ==
  /\ run.argv = "" /\ run.rev_parse.returncode = 0
  /\ DriftWarningIn(output)
  /\ Displays(output, DISMISS_MAX_SHOWS)
  /\ PersistsHead(state_file, HEAD)
  /\ PersistsTimesShown(state_file, DISMISS_MAX_SHOWS)
====
